---- MODULE Spec2Model ----
(***************************************************************************)
(* A model of the core of telegram-llm-tui (crate `core`, module           *)
(* `telegram`): the outgoing send pipeline (send.rs), its retry policy and *)
(* backoff, and the bounded chat cache (cache.rs).                         *)
(*                                                                         *)
(* Durations and instants are integers counted in milliseconds.            *)
(* Option<T> is a sequence of length at most one: <<>> is None, <<x>> is   *)
(* Some(x).                                                                *)
(***************************************************************************)
EXTENDS Integers, Sequences, FiniteSets, TLC

VARIABLES
    \* ---- send pipeline (send.rs) ----
    config,        \* SendPipelineConfig the pipeline was spawned with
    permits,       \* permits available in the admission semaphore
    id_counter,    \* SendPipeline::id_counter
    tx,            \* commands buffered in the mpsc channel, oldest first
    rx_closed,     \* the worker has dropped the receiving end
    stop_tx,       \* value of the stop watch (stop() has been called)
    wpc,           \* where the worker task is
    queue,         \* the worker's BinaryHeap<QueueItem>, as a set
    sequence,      \* the worker's sequence counter
    item,          \* <<QueueItem>> being processed, or <<>>
    loop_now,      \* `now` captured by the sleep branch before its while loop
    now,           \* the clock (tokio::time::Instant::now), in ms
    ticks,         \* number of clock advances so far
    execs,         \* number of transport.execute calls so far
    tickets,       \* SendId -> what the status watch of that id has seen
    lastEnqueue,   \* outcome of the latest enqueue call
    \* ---- pure functions applied on their own ----
    fn_in,         \* the arguments drawn for the function applied
    fn_out,        \* <<>> before the call, <<result>> after
    \* ---- chat cache (cache.rs) ----
    chats,         \* ChatCache::chats : ChatId -> ChatEntry
    limits,        \* ChatCache::limits
    current_bytes, \* ChatCache::current_bytes
    lastOp,        \* the latest cache operation and the EvictionStats it returned
    ops,           \* number of cache operations so far
    \* ---- cache store (SqliteCacheStore in cache.rs) ----
    db,            \* the database file: tables chats and messages, by primary key
    lastSaved,     \* <<snapshot>> given to the latest save that committed
    storeOut,      \* what the latest store call returned
    \* ---- cache flusher (CacheManager, spawn_flush_task in cache.rs) ----
    debounce,      \* CacheConfig::flush_debounce, in ms
    mgr,           \* the CacheManager handle: live, stopping, returned, dropped
    flush_rx,      \* FlushCommands buffered in the unbounded channel
    fpc,           \* where the flush task is
    dirty,         \* the flush task's `dirty`
    next_flush,    \* the flush task's `next_flush`
    fnow,          \* the clock, in ms
    fticks,        \* number of clock advances so far
    version,       \* number of mutations applied to the shared cache
    last_mut,      \* <<time of the latest mutation>>
    bursts,        \* number of bursts of mutations so far
    burst_start,   \* <<time of the first mutation of the latest burst>>
    rcvd,          \* number of Dirty commands the flush task has received
    last_dirty,    \* <<time the flush task received its latest Dirty>>
    saves,         \* the flush_snapshot calls so far
    fexit,         \* <<what the flush task saw when it left its loop>>
    \* ---- event stream (broadcast channel and EventReceiver in events.rs) ----
    bbuffer,       \* the `buffer` given to broadcast::channel
    bsent,         \* number of events sent so far; event i is the i-th sent
    bnext,         \* position of the next event the subscriber is to read
    bgot,          \* what the subscriber's recv calls returned, oldest first
    \* ---- update pump (updates.rs) ----
    pbuffer,       \* the `buffer` given to mpsc::channel
    handle,        \* the UpdatePump handle: live, stopping, stopped, dropped
    ppc,           \* where the pump task is
    held,          \* <<UpdateEvent the task is sending>>
    polls,         \* number of results next_update has returned
    err_at,        \* <<number of the poll that returned the source error>>
    pchan,         \* UpdateEvents buffered in the mpsc channel
    pemit,         \* the UpdateEvents the task has begun to send
    plog,          \* the UpdateEvents that entered the channel
    \* ---- SqliteCacheStore::save statement by statement (cache.rs) ----
    conns,         \* per saver: its connection, the statements left to run
    wlock,         \* the saver holding the database's write lock, or 0
    \* ---- CacheManager's RwLock<ChatCache> (cache.rs) ----
    rw,            \* the write guard: <<[holder, call]>> while a writer holds it, or <<>>
    writers,       \* per writer: where it is in apply_event / upsert_chat
    snaps,         \* the snapshots flush_snapshot has taken, oldest first
    hist,          \* the cache after each completed call, oldest first
    \* ---- UI projector and key handling (ui_state.rs, view.rs, interaction.rs) ----
    state,         \* UiCacheBridge::state : UiState
    bridge,        \* the rest of UiCacheBridge: selected_chat, message_limit
    \* ---- application start-up (main.rs) ----
    app            \* where async_main is, and what the session and the flow saw

sendVars == <<config, permits, id_counter, tx, rx_closed, stop_tx, wpc, queue,
              sequence, item, loop_now, now, ticks, execs, tickets, lastEnqueue>>
fnVars == <<fn_in, fn_out>>
cacheVars == <<chats, limits, current_bytes, lastOp, ops>>
storeVars == <<db, lastSaved, storeOut>>
flushVars == <<debounce, mgr, flush_rx, fpc, dirty, next_flush, fnow, fticks, version,
               last_mut, bursts, burst_start, rcvd, last_dirty, saves, fexit>>
bcastVars == <<bbuffer, bsent, bnext, bgot>>
pumpVars == <<pbuffer, handle, ppc, held, polls, err_at, pchan, pemit, plog>>
txVars == <<conns, wlock>>
lockVars == <<rw, writers, snaps, hist>>
uiVars == <<state, bridge>>
appVars == <<app>>
frontVars == <<uiVars, appVars>>
laterVars == <<txVars, lockVars, frontVars>>
restVars == <<storeVars, flushVars, bcastVars, pumpVars, laterVars>>
notStoreVars == <<sendVars, fnVars, cacheVars, flushVars, bcastVars, pumpVars, laterVars>>
notFlushVars == <<sendVars, fnVars, cacheVars, storeVars, bcastVars, pumpVars, laterVars>>
notBcastVars == <<sendVars, fnVars, cacheVars, storeVars, flushVars, pumpVars, laterVars>>
notPumpVars == <<sendVars, fnVars, cacheVars, storeVars, flushVars, bcastVars, laterVars>>
notTxVars == <<sendVars, fnVars, cacheVars, flushVars, bcastVars, pumpVars, lockVars,
               frontVars>>
notLockVars == <<sendVars, fnVars, storeVars, flushVars, bcastVars, pumpVars, txVars,
                 frontVars>>
notUiVars == <<sendVars, fnVars, storeVars, flushVars, bcastVars, pumpVars, txVars,
               lockVars, appVars>>
notAppVars == <<sendVars, fnVars, cacheVars, storeVars, flushVars, bcastVars, pumpVars,
                txVars, lockVars, uiVars>>
vars == <<sendVars, fnVars, cacheVars, restVars>>

None == <<>>
Some(x) == <<x>>
IsSome(o) == o # <<>>
Unwrap(o) == o[1]

Max(a, b) == IF a >= b THEN a ELSE b
Min(a, b) == IF a <= b THEN a ELSE b

(***************************************************************************)
(* Bounds of the model.                                                    *)
(***************************************************************************)
MaxItems == 2
MaxTicks == 2
MaxExecs == 3

(***************************************************************************)
(* Durations                                                               *)
(***************************************************************************)
MillisPerSec == 1000
DurationFromSecs(s) == s * MillisPerSec
DurationFromMillis(ms) == ms

(***************************************************************************)
(* SendStatus, SendResult, SendError                                       *)
(***************************************************************************)
Queued(a, d) == [st |-> "Queued", attempt |-> a, next_retry_in |-> d]
Sending(a) == [st |-> "Sending", attempt |-> a]
Sent(r) == [st |-> "Sent", result |-> r]
Failed(e, a, r) == [st |-> "Failed", error |-> e, attempts |-> a, retryable |-> r]

MessageSent(m) == [kind |-> "MessageSent", message_id |-> m]

InvalidMessageId == [kind |-> "InvalidMessageId"]
Rpc(code, name, value) == [kind |-> "Rpc", code |-> code, name |-> name, value |-> value]
Invocation(k) == [kind |-> k]

Ok(r) == [ok |-> TRUE, result |-> r]
Err(e) == [ok |-> FALSE, error |-> e]

IsTerminal(s) == s.st \in {"Sent", "Failed"}

(***************************************************************************)
(* Retry policy                                                            *)
(***************************************************************************)
RetryAfter(d) == [decision |-> "RetryAfter", delay |-> d]
Fail(r) == [decision |-> "Fail", retryable |-> r]

RECURSIVE backoff_loop(_, _, _, _)
backoff_loop(delay_ms, step, attempt, max_ms) ==
    IF step < attempt
    THEN LET doubled == delay_ms * 2   \* saturating_mul: see backoff_delay
         IN  IF doubled >= max_ms
             THEN max_ms
             ELSE backoff_loop(doubled, step + 1, attempt, max_ms)
    ELSE delay_ms

\* saturating_mul(2) differs from the exact product only above u64::MAX, where
\* the product is >= max_ms as well, so the loop takes the same branch.
backoff_delay(attempt, cfg) ==
    LET base_ms == cfg.retry_base_delay
        max_ms == cfg.retry_max_delay
    IN  IF base_ms = 0 \/ max_ms = 0
        THEN DurationFromMillis(0)
        ELSE DurationFromMillis(backoff_loop(base_ms, 1, attempt, max_ms))

\* rate_limit_delay reading the server value as milliseconds.
rate_limit_delay_millis(rpc) ==
    IF rpc.name \in {"FLOOD_WAIT", "SLOWMODE_WAIT", "FLOOD_PREMIUM_WAIT"}
    THEN IF IsSome(rpc.value) /\ DurationFromMillis(Unwrap(rpc.value)) # 0
         THEN Some(DurationFromMillis(Unwrap(rpc.value)))
         ELSE None
    ELSE None

rate_limit_delay(rpc) ==
    IF rpc.name \in {"FLOOD_WAIT", "SLOWMODE_WAIT", "FLOOD_PREMIUM_WAIT"}
    THEN IF IsSome(rpc.value) /\ DurationFromSecs(Unwrap(rpc.value)) # 0
         THEN Some(DurationFromSecs(Unwrap(rpc.value)))
         ELSE None
    ELSE None

\* retry_decision retrying every RPC error that is not rate limited.
retry_decision_retry_all_rpc(error, attempt, cfg) ==
    CASE error.kind = "InvalidMessageId" -> Fail(FALSE)
      [] error.kind = "Rpc" ->
            IF IsSome(rate_limit_delay(error))
            THEN RetryAfter(Unwrap(rate_limit_delay(error)))
            ELSE RetryAfter(backoff_delay(attempt, cfg))
      [] error.kind \in {"Io", "Transport", "Deserialize"} ->
            RetryAfter(backoff_delay(attempt, cfg))
      [] error.kind \in {"Dropped", "InvalidDc"} ->
            RetryAfter(backoff_delay(attempt, cfg))
      [] error.kind = "Authentication" -> Fail(FALSE)

retry_decision(error, attempt, cfg) ==
    CASE error.kind = "InvalidMessageId" -> Fail(FALSE)
      [] error.kind = "Rpc" ->
            IF IsSome(rate_limit_delay(error))
            THEN RetryAfter(Unwrap(rate_limit_delay(error)))
            ELSE IF error.code >= 500
                 THEN RetryAfter(backoff_delay(attempt, cfg))
                 ELSE Fail(FALSE)
      [] error.kind \in {"Io", "Transport", "Deserialize"} ->
            RetryAfter(backoff_delay(attempt, cfg))
      [] error.kind \in {"Dropped", "InvalidDc"} ->
            RetryAfter(backoff_delay(attempt, cfg))
      [] error.kind = "Authentication" -> Fail(FALSE)

\* exceeded_max_attempts with a strict comparison.
exceeded_max_attempts_strict(attempt, max_attempts) ==
    IF IsSome(max_attempts) THEN attempt > Unwrap(max_attempts) ELSE FALSE

exceeded_max_attempts(attempt, max_attempts) ==
    IF IsSome(max_attempts) THEN attempt >= Unwrap(max_attempts) ELSE FALSE

(***************************************************************************)
(* Send pipeline: SendPipeline::enqueue / stop, run_send_worker,           *)
(* process_queue_item                                                      *)
(***************************************************************************)
\* a command channel of one slot whatever the queue limit
ChannelCapacityOfOne(cfg) == 1

\* mpsc::channel(config.queue_limit.max(1))
ChannelCapacity(cfg) == Max(cfg.queue_limit, 1)

SemaphorePermitsOffByOne(cfg) == cfg.queue_limit + 1

\* Semaphore::new(config.queue_limit.max(1))
SemaphorePermits(cfg) == Max(cfg.queue_limit, 1)

Cmp(x, y) == IF x < y THEN "Less" ELSE IF x = y THEN "Equal" ELSE "Greater"

\* The ordering without the reversal: latest deadline first.
QueueItemCmpForward(self, other) ==
    LET c == Cmp(self.next_attempt, other.next_attempt)
    IN  IF c # "Equal" THEN c ELSE Cmp(self.sequence, other.sequence)

\* impl Ord for QueueItem: reversed, so that the max-heap yields the smallest
\* (next_attempt, sequence) first.
QueueItemCmp(self, other) ==
    LET c == Cmp(other.next_attempt, self.next_attempt)
    IN  IF c # "Equal" THEN c ELSE Cmp(other.sequence, self.sequence)

\* BinaryHeap::peek: the greatest element of a non-empty heap.
Peek(q) == CHOOSE x \in q : \A y \in q : QueueItemCmp(x, y) # "Less"

\* The value a ticket's watch::Receiver borrows: the channel's initial value
\* until the worker sends one.
WatchValue(id) ==
    IF tickets[id].log = <<>>
    THEN Queued(0, None)
    ELSE tickets[id].log[Len(tickets[id].log)].s

Outstanding == {i \in DOMAIN tickets : ~IsTerminal(WatchValue(i))}

\* item.status.send(status) by the worker, for each of `statuses` in order;
\* `cause` is the transport error that led to them, if any.
Published(id, statuses, cause) ==
    [tickets EXCEPT ![id].log =
        @ \o [i \in 1..Len(statuses) |-> [s |-> statuses[i], cause |-> cause]]]

SendInit(cfg) ==
    /\ config = cfg
    /\ permits = SemaphorePermits(cfg)
    /\ id_counter = 1
    /\ tx = <<>>
    /\ rx_closed = FALSE
    /\ stop_tx = FALSE
    /\ wpc = "select"
    /\ queue = {}
    /\ sequence = 0
    /\ item = <<>>
    /\ loop_now = 0
    /\ now = 0
    /\ ticks = 0
    /\ execs = 0
    /\ tickets = <<>>
    /\ lastEnqueue = [result |-> "none", permits_before |-> 0, permits_after |-> 0,
                      outstanding |-> 0]

EnqueueOutcome(result, after) ==
    [result |-> result, permits_before |-> permits, permits_after |-> after,
     outstanding |-> Cardinality(Outstanding)]

\* enqueue that does not look at whether the receiver is gone
EnqueueIntoClosed(request) ==
    /\ ~stop_tx
    /\ id_counter <= MaxItems
    /\ IF permits = 0
       THEN /\ lastEnqueue' = EnqueueOutcome("QueueFull", permits)
            /\ UNCHANGED <<id_counter, tx, permits, tickets>>
       ELSE /\ id_counter' = id_counter + 1
            /\ IF Len(tx) >= ChannelCapacity(config)
               THEN /\ lastEnqueue' = EnqueueOutcome("QueueFull", permits)
                    /\ UNCHANGED <<tx, permits, tickets>>
               ELSE /\ tx' = Append(tx, [id |-> id_counter, request |-> request])
                    /\ permits' = permits - 1
                    /\ tickets' = tickets @@
                          (id_counter :> [log |-> <<>>, closed |-> FALSE])
                    /\ lastEnqueue' = EnqueueOutcome("Ticket", permits - 1)
    /\ UNCHANGED <<config, rx_closed, stop_tx, wpc, queue, sequence, item,
                   loop_now, now, ticks, execs>>
    /\ UNCHANGED <<fnVars, cacheVars, restVars>>

\* SendPipeline::enqueue(&self, request)
Enqueue(request) ==
    /\ ~stop_tx
    /\ id_counter <= MaxItems
    /\ IF permits = 0
       THEN /\ lastEnqueue' = EnqueueOutcome("QueueFull", permits)
            /\ UNCHANGED <<id_counter, tx, permits, tickets>>
       ELSE /\ id_counter' = id_counter + 1
            /\ IF rx_closed
               THEN /\ lastEnqueue' = EnqueueOutcome("Closed", permits)
                    /\ UNCHANGED <<tx, permits, tickets>>
               ELSE IF Len(tx) >= ChannelCapacity(config)
               THEN /\ lastEnqueue' = EnqueueOutcome("QueueFull", permits)
                    /\ UNCHANGED <<tx, permits, tickets>>
               ELSE /\ tx' = Append(tx, [id |-> id_counter, request |-> request])
                    /\ permits' = permits - 1
                    /\ tickets' = tickets @@
                          (id_counter :> [log |-> <<>>, closed |-> FALSE])
                    /\ lastEnqueue' = EnqueueOutcome("Ticket", permits - 1)
    /\ UNCHANGED <<config, rx_closed, stop_tx, wpc, queue, sequence, item,
                   loop_now, now, ticks, execs>>
    /\ UNCHANGED <<fnVars, cacheVars, restVars>>

\* SendPipeline::stop(self): signals the worker; the handle is consumed.
Stop ==
    /\ ~stop_tx
    /\ stop_tx' = TRUE
    /\ UNCHANGED <<config, permits, id_counter, tx, rx_closed, wpc, queue, sequence,
                   item, loop_now, now, ticks, execs, tickets, lastEnqueue>>
    /\ UNCHANGED <<fnVars, cacheVars, restVars>>

\* a stop that cancels: every queued item is failed before it is dropped
WorkerStopCancelling ==
    /\ wpc = "select"
    /\ stop_tx
    /\ wpc' = "done"
    /\ permits' = permits + Len(tx) + Cardinality(queue)
    /\ tx' = <<>>
    /\ queue' = {}
    /\ rx_closed' = TRUE
    /\ tickets' = [i \in DOMAIN tickets |->
                     [log |-> IF \E q \in queue : q.id = i
                              THEN Append(tickets[i].log,
                                          [s |-> Failed(Invocation("Dropped"), 0, TRUE),
                                           cause |-> None])
                              ELSE tickets[i].log,
                      closed |-> TRUE]]
    /\ UNCHANGED <<config, id_counter, stop_tx, sequence, item, loop_now, now,
                   ticks, execs, lastEnqueue>>
    /\ UNCHANGED <<fnVars, cacheVars, restVars>>

\* select! branch `stop_rx.changed()`: break; the receiver and the heap are
\* dropped with everything they hold.
WorkerStop ==
    /\ wpc = "select"
    /\ stop_tx
    /\ wpc' = "done"
    /\ permits' = permits + Len(tx) + Cardinality(queue)
    /\ tx' = <<>>
    /\ queue' = {}
    /\ rx_closed' = TRUE
    /\ tickets' = [i \in DOMAIN tickets |-> [tickets[i] EXCEPT !.closed = TRUE]]
    /\ UNCHANGED <<config, id_counter, stop_tx, sequence, item, loop_now, now,
                   ticks, execs, lastEnqueue>>
    /\ UNCHANGED <<fnVars, cacheVars, restVars>>

\* select! branch `rx.recv()` with Some(SendCommand::Enqueue{..})
WorkerRecv ==
    /\ wpc = "select"
    /\ tx # <<>>
    /\ LET command == Head(tx)
       IN  /\ sequence' = sequence + 1
           /\ tickets' = Published(command.id, <<Queued(0, None)>>, None)
           /\ queue' = queue \cup {[id |-> command.id,
                                    request |-> command.request,
                                    attempts |-> 0,
                                    next_attempt |-> now,
                                    sequence |-> sequence + 1,
                                    queued_at |-> now]}
    /\ tx' = Tail(tx)
    /\ UNCHANGED <<config, permits, id_counter, rx_closed, stop_tx, wpc, item,
                   loop_now, now, ticks, execs, lastEnqueue>>
    /\ UNCHANGED <<fnVars, cacheVars, restVars>>

\* select! branch `sleep_until(sleep_deadline), if next_deadline.is_some()`
WorkerWake ==
    /\ wpc = "select"
    /\ queue # {}
    /\ Peek(queue).next_attempt <= now
    /\ loop_now' = now
    /\ wpc' = "drain"
    /\ UNCHANGED <<config, permits, id_counter, tx, rx_closed, stop_tx, queue,
                   sequence, item, now, ticks, execs, tickets, lastEnqueue>>
    /\ UNCHANGED <<fnVars, cacheVars, restVars>>

\* a pop that starts the transport call without counting the attempt
DrainPopUncounted ==
    /\ wpc = "drain"
    /\ queue # {}
    /\ Peek(queue).next_attempt <= loop_now
    /\ execs < MaxExecs
    /\ LET popped == Peek(queue)
       IN  /\ queue' = queue \ {popped}
           /\ item' = <<popped>>
           /\ tickets' = Published(popped.id, <<Sending(popped.attempts)>>, None)
    /\ execs' = execs + 1
    /\ wpc' = "exec"
    /\ UNCHANGED <<config, permits, id_counter, tx, rx_closed, stop_tx, sequence,
                   loop_now, now, ticks, lastEnqueue>>
    /\ UNCHANGED <<fnVars, cacheVars, restVars>>

\* while queue.peek().is_some_and(|item| item.next_attempt <= now): pop, and
\* process_queue_item up to the transport call.
DrainPop ==
    /\ wpc = "drain"
    /\ queue # {}
    /\ Peek(queue).next_attempt <= loop_now
    /\ execs < MaxExecs
    /\ LET popped == Peek(queue)
           attempt == popped.attempts + 1
       IN  /\ queue' = queue \ {popped}
           /\ item' = <<[popped EXCEPT !.attempts = attempt]>>
           /\ tickets' = Published(popped.id, <<Sending(attempt)>>, None)
    /\ execs' = execs + 1
    /\ wpc' = "exec"
    /\ UNCHANGED <<config, permits, id_counter, tx, rx_closed, stop_tx, sequence,
                   loop_now, now, ticks, lastEnqueue>>
    /\ UNCHANGED <<fnVars, cacheVars, restVars>>

\* the while condition is false: back to the top of the loop
DrainExit ==
    /\ wpc = "drain"
    /\ IF queue = {} THEN TRUE ELSE Peek(queue).next_attempt > loop_now
    /\ wpc' = "select"
    /\ UNCHANGED <<config, permits, id_counter, tx, rx_closed, stop_tx, queue,
                   sequence, item, loop_now, now, ticks, execs, tickets, lastEnqueue>>
    /\ UNCHANGED <<fnVars, cacheVars, restVars>>

\* Outcome without the `return` that ends the exhausted-budget branch.
OutcomeFallThrough(it, response) ==
    IF response.ok
    THEN [publish |-> <<Sent(response.result)>>, requeue |-> FALSE]
    ELSE LET decision == retry_decision(response.error, it.attempts, config)
         IN  IF decision.decision = "RetryAfter"
             THEN IF exceeded_max_attempts(it.attempts, config.max_retry_attempts)
                  THEN [publish |-> <<Failed(response.error, it.attempts, TRUE),
                                      Queued(it.attempts, Some(decision.delay))>>,
                        requeue |-> TRUE, delay |-> decision.delay]
                  ELSE [publish |-> <<Queued(it.attempts, Some(decision.delay))>>,
                        requeue |-> TRUE, delay |-> decision.delay]
             ELSE [publish |-> <<Failed(response.error, it.attempts, decision.retryable)>>,
                   requeue |-> FALSE]

\* What process_queue_item does with the transport's answer: the statuses it
\* sends, and whether (and with what delay) it pushes the item back.
Outcome(it, response) ==
    IF response.ok
    THEN [publish |-> <<Sent(response.result)>>, requeue |-> FALSE]
    ELSE LET decision == retry_decision(response.error, it.attempts, config)
         IN  IF decision.decision = "RetryAfter"
             THEN IF exceeded_max_attempts(it.attempts, config.max_retry_attempts)
                  THEN [publish |-> <<Failed(response.error, it.attempts, TRUE)>>,
                        requeue |-> FALSE]
                  ELSE [publish |-> <<Queued(it.attempts, Some(decision.delay))>>,
                        requeue |-> TRUE, delay |-> decision.delay]
             ELSE [publish |-> <<Failed(response.error, it.attempts, decision.retryable)>>,
                   requeue |-> FALSE]

\* transport.execute(&item.request).await returns `response`
TransportReturn(response) ==
    /\ wpc = "exec"
    /\ LET it == item[1]
           out == Outcome(it, response)
           cause == IF response.ok THEN None ELSE Some(response.error)
       IN  /\ tickets' = Published(it.id, out.publish, cause)
           /\ IF out.requeue
              THEN /\ sequence' = sequence + 1
                   /\ queue' = queue \cup {[it EXCEPT !.next_attempt = now + out.delay,
                                                       !.sequence = sequence + 1,
                                                       !.queued_at = now]}
                   /\ item' = <<>>
                   /\ wpc' = "drain"
              ELSE /\ wpc' = "finish"
                   /\ UNCHANGED <<sequence, queue, item>>
    /\ UNCHANGED <<config, permits, id_counter, tx, rx_closed, stop_tx, loop_now,
                   now, ticks, execs, lastEnqueue>>
    /\ UNCHANGED <<fnVars, cacheVars, restVars>>

\* transport.execute panics: the worker task ends by unwinding, which drops
\* the item in hand, the heap and the receiver with the commands still in the
\* channel, and with them every permit and status sender the task held.
TransportPanic ==
    /\ wpc = "exec"
    /\ wpc' = "done"
    /\ permits' = permits + Len(tx) + Cardinality(queue) + 1
    /\ tx' = <<>>
    /\ queue' = {}
    /\ item' = <<>>
    /\ rx_closed' = TRUE
    /\ tickets' = [i \in DOMAIN tickets |-> [tickets[i] EXCEPT !.closed = TRUE]]
    /\ UNCHANGED <<config, id_counter, stop_tx, sequence, loop_now, now, ticks,
                   execs, lastEnqueue>>
    /\ UNCHANGED <<fnVars, cacheVars, restVars>>

\* process_queue_item returns after a terminal status: `item` goes out of
\* scope, and with it the status sender and the permit.
ItemDrop ==
    /\ wpc = "finish"
    /\ permits' = permits + 1
    /\ tickets' = [tickets EXCEPT ![item[1].id].closed = TRUE]
    /\ item' = <<>>
    /\ wpc' = "drain"
    /\ UNCHANGED <<config, id_counter, tx, rx_closed, stop_tx, queue, sequence,
                   loop_now, now, ticks, execs, lastEnqueue>>
    /\ UNCHANGED <<fnVars, cacheVars, restVars>>

\* The instants the clock may jump to: the next millisecond, and the deadlines
\* of the queued items and the millisecond before each.
TickTargets ==
    {t \in {now + 1} \cup UNION {{i.next_attempt - 1, i.next_attempt} : i \in queue} :
        t > now}

Tick(t) ==
    /\ ticks < MaxTicks
    /\ now' = t
    /\ ticks' = ticks + 1
    /\ UNCHANGED <<config, permits, id_counter, tx, rx_closed, stop_tx, wpc, queue,
                   sequence, item, loop_now, execs, tickets, lastEnqueue>>
    /\ UNCHANGED <<fnVars, cacheVars, restVars>>

SendRequests == {[kind |-> "send_text"]}

\* What the transport answers: success, a server rate limit, a transient
\* fault, and two errors that are not retried.
TransportResponses ==
    {Ok(MessageSent(77)),
     Err(Rpc(420, "FLOOD_WAIT", Some(1))),
     Err(Invocation("Io")),
     Err(Rpc(400, "PEER_ID_INVALID", None)),
     Err(InvalidMessageId)}

SendConfig(limit, max_attempts) ==
    [queue_limit |-> limit, max_retry_attempts |-> max_attempts,
     retry_base_delay |-> 1, retry_max_delay |-> 2]

SendConfigs ==
    {SendConfig(0, None), SendConfig(1, Some(0)),
     SendConfig(2, Some(1)), SendConfig(2, Some(2))}

ParkedSend ==
    SendInit(SendConfig(1, None))
ParkedFn == fn_in = <<>> /\ fn_out = <<>>
ParkedCache ==
    /\ chats = <<>>
    /\ limits = [max_chats |-> 0, max_messages_per_chat |-> 0, max_bytes |-> 0]
    /\ current_bytes = 0
    /\ lastOp = <<>>
    /\ ops = 0
ParkedStore ==
    /\ db = [chats |-> <<>>, messages |-> <<>>]
    /\ lastSaved = <<>>
    /\ storeOut = <<>>
\* spawn_flush_task: the flush task before its first command
FlushInit(d) ==
    /\ debounce = d
    /\ mgr = "live"
    /\ flush_rx = <<>>
    /\ fpc = "loop"
    /\ dirty = FALSE
    /\ next_flush = None
    /\ fnow = 0
    /\ fticks = 0
    /\ version = 0
    /\ last_mut = None
    /\ bursts = 0
    /\ burst_start = None
    /\ rcvd = 0
    /\ last_dirty = None
    /\ saves = <<>>
    /\ fexit = None
ParkedFlush == FlushInit(1)
\* broadcast::channel(buffer) with one subscriber
BroadcastInit(buffer) ==
    /\ bbuffer = buffer
    /\ bsent = 0
    /\ bnext = 1
    /\ bgot = <<>>
ParkedBcast == BroadcastInit(1)
\* spawn_update_pump(source, buffer)
PumpInit(buffer) ==
    /\ pbuffer = buffer
    /\ handle = "live"
    /\ ppc = "select"
    /\ held = None
    /\ polls = 0
    /\ err_at = None
    /\ pchan = <<>>
    /\ pemit = <<>>
    /\ plog = <<>>
ParkedPump == PumpInit(1)
\* two savers, neither with a connection open
Savers == {1, 2}
ParkedTx ==
    /\ conns = [s \in Savers |->
                  [todo |-> <<>>, intx |-> FALSE, work |-> <<>>, snapshot |-> <<>>]]
    /\ wlock = 0
\* two writers, neither inside a call; no snapshot taken
Writers == {1, 2}
ParkedLock ==
    /\ rw = <<>>
    /\ writers = [w \in Writers |-> "idle"]
    /\ snaps = <<>>
    /\ hist = <<>>
\* UiState::default() and UiCacheBridge::new(None)
UiStateDefault ==
    [focus |-> "Messages",
     input |-> [text |-> <<>>, cursor |-> 0],
     chats |-> <<>>,
     messages |-> <<>>,
     message_view |-> [scroll_offset |-> 0, cursor |-> <<>>, selected_ids |-> {},
                       search |-> [is_open |-> FALSE,
                                   query |-> [text |-> <<>>, cursor |-> 0],
                                   matches |-> <<>>, selected |-> 0],
                       page_size |-> 8]]
ParkedUi ==
    /\ state = UiStateDefault
    /\ bridge = [selected_chat |-> <<>>, message_limit |-> <<>>]
\* async_main before its first step
ParkedApp == app = [pc |-> "start", authorized |-> FALSE, log |-> <<>>]
ParkedFront == ParkedUi /\ ParkedApp
ParkedLater == ParkedTx /\ ParkedLock /\ ParkedFront
ParkedRest == ParkedStore /\ ParkedFlush /\ ParkedBcast /\ ParkedPump /\ ParkedLater

SendPipelineNext ==
    \/ \E request \in SendRequests : Enqueue(request)
    \/ Stop
    \/ WorkerStop
    \/ WorkerRecv
    \/ WorkerWake
    \/ DrainPop
    \/ DrainExit
    \/ \E response \in TransportResponses : TransportReturn(response)
    \/ ItemDrop
    \/ \E t \in TickTargets : Tick(t)

SendPipelineInit ==
    /\ \E cfg \in SendConfigs : SendInit(cfg)
    /\ ParkedFn
    /\ ParkedCache
    /\ ParkedRest

SendPipelineSpec == SendPipelineInit /\ [][SendPipelineNext]_vars

\* the pipeline with a transport that may also panic
SendCrashNext ==
    \/ \E request \in SendRequests : Enqueue(request)
    \/ Stop
    \/ WorkerStop
    \/ WorkerRecv
    \/ WorkerWake
    \/ DrainPop
    \/ DrainExit
    \/ \E response \in TransportResponses : TransportReturn(response)
    \/ TransportPanic
    \/ ItemDrop
    \/ \E t \in TickTargets : Tick(t)
SendCrashSpec == SendPipelineInit /\ [][SendCrashNext]_vars

\* the steps the worker task takes by itself once it is scheduled, the return
\* of the transport call included
WorkerProgress ==
    \/ WorkerRecv
    \/ WorkerWake
    \/ DrainPop
    \/ DrainExit
    \/ \E response \in TransportResponses : TransportReturn(response)
    \/ ItemDrop

\* The pipeline under a fair scheduler: the worker task keeps running and every
\* transport call returns; select! picks at random among its ready branches,
\* so a stop arm that is ready again and again is taken in the end.
SendStopSpec ==
    /\ SendPipelineInit
    /\ [][SendPipelineNext]_vars
    /\ WF_vars(WorkerProgress)
    /\ SF_vars(WorkerStop)

\* sleep_until(sleep_deadline) while the worker waits in select!: the clock
\* reaches the deadline of the first queued item
SleepUntilDeadline ==
    /\ wpc = "select"
    /\ queue # {}
    /\ Peek(queue).next_attempt > now
    /\ now' = Peek(queue).next_attempt
    /\ UNCHANGED <<config, permits, id_counter, tx, rx_closed, stop_tx, wpc, queue,
                   sequence, item, loop_now, ticks, execs, tickets, lastEnqueue>>
    /\ UNCHANGED <<fnVars, cacheVars, restVars>>

\* configurations with a retry budget
BudgetConfigs == {SendConfig(1, Some(0)), SendConfig(2, Some(1)), SendConfig(2, Some(2))}

SendLiveInit ==
    /\ \E cfg \in BudgetConfigs : SendInit(cfg)
    /\ ParkedFn
    /\ ParkedCache
    /\ ParkedRest

\* the pipeline that nobody stops
SendLiveNext ==
    \/ \E request \in SendRequests : Enqueue(request)
    \/ WorkerRecv
    \/ WorkerWake
    \/ DrainPop
    \/ DrainExit
    \/ \E response \in TransportResponses : TransportReturn(response)
    \/ ItemDrop
    \/ SleepUntilDeadline

\* the worker task keeps running, every transport call returns, and time
\* advances to the next deadline
SendLiveSpec ==
    /\ SendLiveInit
    /\ [][SendLiveNext]_vars
    /\ WF_vars(WorkerProgress)
    /\ WF_vars(SleepUntilDeadline)

(***************************************************************************)
(* Properties of the send pipeline                                         *)
(***************************************************************************)
\* what lastEnqueue can record: no call yet, or Ok(ticket) / Err(QueueFull) /
\* Err(Closed) of SendEnqueueError
EnqueueOutcomes == {"none", "Ticket", "QueueFull", "Closed"}

\* C23: enqueue never blocks and returns a ticket, QueueFull or Closed; once
\* the worker task has exited, every enqueue fails with Closed, hands out no
\* ticket, puts nothing in the channel and keeps no permit.
C23_ClosedAfterWorkerExit ==
    /\ [](/\ lastEnqueue.result \in EnqueueOutcomes
          /\ (~stop_tx /\ id_counter <= MaxItems)
                => \A request \in SendRequests : ENABLED Enqueue(request)
          /\ wpc = "done" => permits = SemaphorePermits(config) /\ tx = <<>>)
    /\ [][\A request \in SendRequests :
             (wpc = "done" /\ Enqueue(request)) =>
                 /\ lastEnqueue'.result = "Closed"
                 /\ tickets' = tickets
                 /\ tx' = tx
                 /\ permits' = permits]_vars
C23_Witness ==
    /\ wpc = "done"
    /\ ~stop_tx
    /\ lastEnqueue.result = "Closed"
    /\ id_counter = 3
    /\ DOMAIN tickets = {1}
    /\ tickets[1].closed

\* the permits taken from the semaphore and not yet given back
HeldPermits == SemaphorePermits(config) - permits

\* C39: the command channel is never full: it buffers at most as many Enqueue
\* commands as there are permits held, which is at most its capacity, so an
\* enqueue that fails with QueueFull found no permit available.
C39_ChannelNeverFull ==
    /\ Len(tx) <= HeldPermits
    /\ HeldPermits <= ChannelCapacity(config)
    /\ lastEnqueue.result = "QueueFull" => lastEnqueue.permits_before = 0
C39_Witness ==
    /\ config.queue_limit = 1
    /\ Len(tx) = ChannelCapacity(config)
    /\ permits = 0
    /\ lastEnqueue.result = "QueueFull"
    /\ lastEnqueue.permits_before = 0
    /\ lastEnqueue.outstanding = 1

\* C26: stopping cancels nothing. The step in which the worker exits publishes
\* no status: every ticket keeps the statuses it had, so an item that was not
\* terminal keeps its last published status, and its watch is closed; once the
\* worker has exited no status is published and no transport call is started.
C26_StopCancelsNothing ==
    /\ [][(wpc # "done" /\ wpc' = "done") =>
             \A i \in DOMAIN tickets :
                /\ tickets'[i].log = tickets[i].log
                /\ tickets'[i].closed]_vars
    /\ [][wpc = "done" =>
             /\ execs' = execs
             /\ tickets' = tickets
             /\ wpc' = "done"]_vars
    /\ [](wpc = "done" => item = <<>> /\ queue = {} /\ tx = <<>>)
C26_Witness ==
    /\ wpc = "done"
    /\ \E i \in DOMAIN tickets :
          /\ tickets[i].closed
          /\ WatchValue(i) = Queued(1, Some(1))
    /\ \E i \in DOMAIN tickets :
          /\ tickets[i].closed
          /\ tickets[i].log = <<>>

\* C27: once stop is signalled the worker starts no further transport call (it
\* at most finishes the one in flight), and it exits. MaxExecs caps the calls
\* of one run, so the exit is asked for in the runs that stay below the cap.
C27_StopExitsAfterInFlightCall ==
    /\ [][stop_tx => execs' = execs]_vars
    /\ stop_tx ~> (wpc = "done" \/ execs = MaxExecs)

\* queue_limit, with 0 treated as 1
ClaimedLimit == IF config.queue_limit = 0 THEN 1 ELSE config.queue_limit

Log(id) == tickets[id].log
\* positions of the statuses that end an attempt (the one before is Sending)
AttemptEnds(id) == {i \in 2..Len(Log(id)) : Log(id)[i - 1].s.st = "Sending"}
Statuses(id) == [i \in 1..Len(Log(id)) |-> Log(id)[i].s]
\* what the transport answered to each attempt of the item, oldest first
RECURSIVE ResponsesFrom(_, _)
ResponsesFrom(id, i) ==
    IF i > Len(Log(id)) THEN <<>>
    ELSE IF i \in AttemptEnds(id)
         THEN <<IF Log(id)[i].s.st = "Sent"
                THEN Ok(Log(id)[i].s.result)
                ELSE Err(Unwrap(Log(id)[i].cause))>> \o ResponsesFrom(id, i + 1)
         ELSE ResponsesFrom(id, i + 1)
Responses(id) == ResponsesFrom(id, 1)
Executions(id) == Cardinality({i \in 1..Len(Log(id)) : Log(id)[i].s.st = "Sending"})

\* the transport calls the budget Some(n) leaves to an item: max(n, 1)
BudgetOf(cfg) == Max(Unwrap(cfg.max_retry_attempts), 1)

\* C33: with max_retry_attempts = Some(n), a worker that keeps running,
\* transport calls that return and a clock that advances, every admitted item
\* reaches Sent or Failed, and a Failed status carries in attempts the number
\* of transport calls made for the item.  MaxExecs caps the calls of one run:
\* an item may stay unfinished only when the cap is reached while the item
\* still has calls left in its budget.
C33_EveryItemEnds ==
    /\ [](\A id \in DOMAIN tickets :
            WatchValue(id).st = "Failed" => WatchValue(id).attempts = Executions(id))
    /\ \A id \in 1..MaxItems :
          (id \in DOMAIN tickets) ~>
              (/\ id \in DOMAIN tickets
               /\ \/ IsTerminal(WatchValue(id))
                  \/ execs = MaxExecs /\ Executions(id) < BudgetOf(config))
C33_Witness ==
    /\ config = SendConfig(2, Some(2))
    /\ DOMAIN tickets = {1, 2}
    /\ WatchValue(1) = Failed(Invocation("Io"), 2, TRUE)
    /\ Executions(1) = 2
    /\ WatchValue(2).st = "Sent"
    /\ now > 0
    /\ execs = 3

IsRateLimit(e) ==
    /\ e.kind = "Rpc"
    /\ e.name \in {"FLOOD_WAIT", "SLOWMODE_WAIT", "FLOOD_PREMIUM_WAIT"}
    /\ IsSome(e.value)
    /\ Unwrap(e.value) > 0
IsTransient(e) ==
    \/ e.kind \in {"Io", "Transport", "Deserialize", "Dropped", "InvalidDc"}
    \/ e.kind = "Rpc" /\ ~IsRateLimit(e) /\ e.code >= 500
IsNonRetryable(e) ==
    \/ e.kind \in {"InvalidMessageId", "Authentication"}
    \/ e.kind = "Rpc" /\ ~IsRateLimit(e) /\ e.code < 500
BudgetExhausted(a) ==
    IsSome(config.max_retry_attempts) /\ a >= Unwrap(config.max_retry_attempts)

\* C1: the items that hold a ticket and are not yet Sent or Failed never number
\* more than queue_limit (0 counting as 1); while that many are outstanding no
\* permit is available, and an enqueue made then returned QueueFull and admitted
\* nothing.
C1_AdmissionBound ==
    /\ Cardinality(Outstanding) <= ClaimedLimit
    /\ (~stop_tx /\ Cardinality(Outstanding) = ClaimedLimit) => permits = 0
    /\ lastEnqueue.result # "none" /\ lastEnqueue.outstanding >= ClaimedLimit
          => /\ lastEnqueue.result = "QueueFull"
             /\ lastEnqueue.permits_after = lastEnqueue.permits_before
C1_Witness ==
    /\ config.queue_limit = 0
    /\ lastEnqueue.result = "QueueFull"
    /\ lastEnqueue.outstanding = 1
    /\ Cardinality(DOMAIN tickets) = 1

\* C2: once an item's watch shows Sent or Failed its permit is free again, so an
\* enqueue made while fewer than queue_limit items are outstanding does not
\* return QueueFull; and a rejected enqueue leaves the available permits as
\* they were.
C2_PermitFreeOnceTerminal ==
    /\ lastEnqueue.result = "QueueFull" => lastEnqueue.outstanding >= ClaimedLimit
    /\ lastEnqueue.result \in {"QueueFull", "Closed"}
          => lastEnqueue.permits_after = lastEnqueue.permits_before

StatusFollows(s, t) ==
    CASE s.st = "Queued" -> t = Sending(s.attempt + 1)
      [] s.st = "Sending" ->
            \/ t.st \in {"Sent", "Failed"}
            \/ /\ t.st = "Queued"
               /\ t.attempt = s.attempt
               /\ IsSome(t.next_retry_in)
      [] OTHER -> FALSE

\* C3: the statuses sent on an item's watch are Queued{0,None}, Sending{1}, then
\* pairs Queued{k,Some(d)}, Sending{k+1} with k going up by one, and at most one
\* Sent or Failed, after which nothing is sent.
C3_StatusSequence ==
    \A id \in DOMAIN tickets :
        /\ Len(Log(id)) >= 1 => Log(id)[1].s = Queued(0, None)
        /\ \A i \in 1..(Len(Log(id)) - 1) : StatusFollows(Log(id)[i].s, Log(id)[i + 1].s)
C3_Witness ==
    \E id \in DOMAIN tickets :
        /\ Len(Log(id)) = 5
        /\ Log(id)[3].s.st = "Queued"
        /\ IsTerminal(Log(id)[5].s)
        /\ tickets[id].closed

FloodWaitThenSent == <<Err(Rpc(420, "FLOOD_WAIT", Some(1))), Ok(MessageSent(77))>>
FloodWaitTrace ==
    <<Queued(0, None), Sending(1), Queued(1, Some(1000)), Sending(2),
      Sent(MessageSent(77))>>

\* C4: an attempt k that fails with a rate limit of v > 0 seconds within the
\* retry budget is requeued as Queued{k, Some(v s)}, and Sending{k+1} is not
\* sent before v seconds have passed; FLOOD_WAIT(1) then Ok(MessageSent 77)
\* gives Queued{0,None}, Sending{1}, Queued{1,Some(1s)}, Sending{2}, Sent.
C4_RateLimitHonored ==
    /\ \A id \in DOMAIN tickets : \A i \in AttemptEnds(id) :
          (IsSome(Log(id)[i].cause) /\ IsRateLimit(Unwrap(Log(id)[i].cause))
             /\ ~BudgetExhausted(Log(id)[i - 1].s.attempt))
          => Log(id)[i].s =
                Queued(Log(id)[i - 1].s.attempt,
                       Some(Unwrap(Unwrap(Log(id)[i].cause).value) * 1000))
    /\ wpc = "exec" =>
          LET id == item[1].id
              n == Len(Log(id))
          IN  (n >= 3 /\ Log(id)[n - 1].s.st = "Queued"
                 /\ IsRateLimit(Unwrap(Log(id)[n - 1].cause)))
              => now >= item[1].queued_at
                           + Unwrap(Unwrap(Log(id)[n - 1].cause).value) * 1000
    /\ \A id \in DOMAIN tickets :
          Responses(id) = FloodWaitThenSent => Statuses(id) = FloodWaitTrace
C4_Witness ==
    \E id \in DOMAIN tickets :
        /\ Responses(id) = FloodWaitThenSent
        /\ Statuses(id) = FloodWaitTrace
        /\ now = 1000

\* C5: with max_retry_attempts = Some(max), an attempt a >= max that fails with
\* a retryable error (backoff or rate limit) ends the item with
\* Failed{attempts: a, retryable: true} and does not requeue it; no item is
\* executed more than max(max, 1) times.
C5_RetryBudget ==
    \A id \in DOMAIN tickets :
        /\ \A i \in AttemptEnds(id) :
              LET a == Log(id)[i - 1].s.attempt
                  cause == Log(id)[i].cause
              IN  (IsSome(cause) /\ BudgetExhausted(a)
                     /\ (IsRateLimit(Unwrap(cause)) \/ IsTransient(Unwrap(cause))))
                  => /\ Log(id)[i].s = Failed(Unwrap(cause), a, TRUE)
                     /\ i = Len(Log(id))
        /\ IsSome(config.max_retry_attempts)
              => Executions(id) <= Max(Unwrap(config.max_retry_attempts), 1)
C5_Witness ==
    \E id \in DOMAIN tickets :
        /\ config.max_retry_attempts = Some(2)
        /\ Executions(id) = 2
        /\ WatchValue(id) = Failed(Invocation("Io"), 2, TRUE)
        /\ tickets[id].closed

\* C6: an attempt a that fails with an error that is not retryable takes the
\* item from Sending{a} straight to Failed{attempts: a, retryable: false},
\* whatever max_retry_attempts is, and the item is not requeued.
C6_NonRetryableFails ==
    \A id \in DOMAIN tickets : \A i \in AttemptEnds(id) :
        (IsSome(Log(id)[i].cause) /\ IsNonRetryable(Unwrap(Log(id)[i].cause)))
        => /\ Log(id)[i].s =
                 Failed(Unwrap(Log(id)[i].cause), Log(id)[i - 1].s.attempt, FALSE)
           /\ i = Len(Log(id))
           /\ \A q \in queue : q.id # id
C6_Witness ==
    /\ config.max_retry_attempts = Some(2)
    /\ \E id \in DOMAIN tickets :
          /\ Statuses(id) = <<Queued(0, None), Sending(1), Failed(InvalidMessageId, 1, FALSE)>>
          /\ tickets[id].closed
    /\ \E id \in DOMAIN tickets :
          WatchValue(id) = Failed(Rpc(400, "PEER_ID_INVALID", None), 2, FALSE)

Started(id) == Executions(id) >= 1
KeyBefore(a, b) ==
    \/ a.next_attempt < b.next_attempt
    \/ a.next_attempt = b.next_attempt /\ a.sequence < b.sequence

MaxAttempt == 4
MaxDelayMs == 4

RpcErrors ==
    {Rpc(code, name, value) :
        code \in {400, 420, 500, 503},
        name \in {"FLOOD_WAIT", "SLOWMODE_WAIT", "FLOOD_PREMIUM_WAIT", "PEER_ID_INVALID"},
        value \in {None, Some(0), Some(1), Some(2)}}

SendErrors ==
    {InvalidMessageId} \cup RpcErrors
        \cup {Invocation(k) : k \in {"Io", "Transport", "Deserialize", "Dropped",
                                     "InvalidDc", "Authentication"}}

RetryInit ==
    /\ fn_in \in [error : SendErrors, attempt : 1..MaxAttempt,
                  cfg : {SendConfig(1, None)}]
    /\ fn_out = <<>>
    /\ ParkedSend
    /\ ParkedCache
    /\ ParkedRest

ApplyRetryDecision ==
    /\ fn_out = <<>>
    /\ fn_out' = <<retry_decision(fn_in.error, fn_in.attempt, fn_in.cfg)>>
    /\ UNCHANGED <<fn_in, sendVars, cacheVars, restVars>>

RetrySpec == RetryInit /\ [][ApplyRetryDecision]_vars

\* the retry-policy table
PolicyTable(error, attempt, cfg) ==
    IF error.kind = "InvalidMessageId" THEN Fail(FALSE)
    ELSE IF error.kind = "Rpc"
              /\ error.name \in {"FLOOD_WAIT", "SLOWMODE_WAIT", "FLOOD_PREMIUM_WAIT"}
              /\ IsSome(error.value) /\ Unwrap(error.value) > 0
         THEN RetryAfter(Unwrap(error.value) * 1000)
    ELSE IF error.kind = "Rpc"
         THEN IF error.code >= 500
              THEN RetryAfter(backoff_delay(attempt, cfg))
              ELSE Fail(FALSE)
    ELSE IF error.kind \in {"Io", "Transport", "Deserialize", "Dropped", "InvalidDc"}
         THEN RetryAfter(backoff_delay(attempt, cfg))
    ELSE Fail(FALSE)

\* C7: for every error and attempt retry_decision gives what the retry-policy
\* table gives: a positive rate limit is retried after the server's value
\* whatever the code, other RPC errors are retried with backoff from code 500
\* and fail below it, transport faults are retried with backoff, an invalid
\* message id and an authentication error fail without retry.
C7_RetryPolicyTable ==
    fn_out # <<>> => fn_out[1] = PolicyTable(fn_in.error, fn_in.attempt, fn_in.cfg)
C7_Witness ==
    /\ fn_out = <<RetryAfter(2000)>>
    /\ fn_in.error = Rpc(400, "FLOOD_PREMIUM_WAIT", Some(2))

(***************************************************************************)
(* backoff_delay, applied to one drawn configuration at attempts n and n+1 *)
(***************************************************************************)
BackoffInit ==
    /\ fn_in \in [attempt : 1..MaxAttempt,
                  cfg : [queue_limit : {1}, max_retry_attempts : {None},
                         retry_base_delay : 0..MaxDelayMs,
                         retry_max_delay : 0..MaxDelayMs]]
    /\ fn_out = <<>>
    /\ ParkedSend
    /\ ParkedCache
    /\ ParkedRest

ApplyBackoff ==
    /\ fn_out = <<>>
    /\ fn_out' = <<[this |-> backoff_delay(fn_in.attempt, fn_in.cfg),
                    next |-> backoff_delay(fn_in.attempt + 1, fn_in.cfg)]>>
    /\ UNCHANGED <<fn_in, sendVars, cacheVars, restVars>>

BackoffSpec == BackoffInit /\ [][ApplyBackoff]_vars

\* C8: for every configuration, base > max included, and every attempt n >= 1,
\* backoff(n+1) >= backoff(n) and backoff(n) <= retry_max_delay.
C8_BackoffMonotoneAndCapped ==
    fn_out # <<>> =>
        /\ fn_out[1].next >= fn_out[1].this
        /\ fn_out[1].this <= fn_in.cfg.retry_max_delay

RECURSIVE Pow2(_)
Pow2(k) == IF k = 0 THEN 1 ELSE 2 * Pow2(k - 1)

\* C25: for every configuration and every attempt n >= 1, backoff_delay(n) is
\* min(retry_max_delay, retry_base_delay * 2^(n-1)) in milliseconds, and zero
\* when the base delay or the max delay is zero.
C25_BackoffClosedForm ==
    fn_out # <<>> =>
        LET base_ms == fn_in.cfg.retry_base_delay
            max_ms == fn_in.cfg.retry_max_delay
            n == fn_in.attempt
        IN  /\ fn_out[1].this = Min(max_ms, base_ms * Pow2(n - 1))
            /\ (base_ms = 0 \/ max_ms = 0) => fn_out[1].this = 0

(***************************************************************************)
(* Chat cache: ChatCache in cache.rs                                       *)
(*                                                                         *)
(* A cache value is a record [chats, limits, current_bytes, stats]; stats  *)
(* is the EvictionStats the running operation is accumulating.             *)
(***************************************************************************)
MaxOps == 3

MESSAGE_OVERHEAD_BYTES == 64
CHAT_OVERHEAD_BYTES == 64

SaturatingSub(a, b) == IF b > a THEN 0 ELSE a - b

message_size_bytes(message) == Len(message.text) + MESSAGE_OVERHEAD_BYTES
summary_size_bytes(summary) == Len(summary.title) + CHAT_OVERHEAD_BYTES

NoStats == [chats_evicted |-> 0, messages_evicted |-> 0]

\* ChatCache::new
NewCache(lim) == [chats |-> <<>>, limits |-> lim, current_bytes |-> 0, stats |-> NoStats]

WithoutChat(chs, chat_id) == [i \in DOMAIN chs \ {chat_id} |-> chs[i]]

\* a search that never finds the id
FindMessageNever(messages, message_id) == 0

\* position of the first cached message with this id, or 0
FindMessage(messages, message_id) ==
    IF \E i \in 1..Len(messages) : messages[i].message_id = message_id
    THEN CHOOSE i \in 1..Len(messages) :
            /\ messages[i].message_id = message_id
            /\ \A j \in 1..(i - 1) : messages[j].message_id # message_id
    ELSE 0

\* insert_chat that keeps the byte count of the summary it replaces
insert_chat_keep_summary_bytes(c, summary) ==
    LET updated_at == IF IsSome(summary.last_message_at)
                      THEN Unwrap(summary.last_message_at) ELSE 0
        summary_bytes == summary_size_bytes(summary)
    IN  IF summary.chat_id \in DOMAIN c.chats
        THEN [c EXCEPT !.chats[summary.chat_id].summary = summary,
                       !.chats[summary.chat_id].updated_at = updated_at]
        ELSE [c EXCEPT
                !.chats = c.chats @@
                    (summary.chat_id :> [summary |-> summary,
                                         messages |-> <<>>,
                                         updated_at |-> updated_at,
                                         message_bytes |-> 0,
                                         summary_bytes |-> summary_bytes]),
                !.current_bytes = c.current_bytes + summary_bytes]

insert_chat(c, summary) ==
    LET updated_at == IF IsSome(summary.last_message_at)
                      THEN Unwrap(summary.last_message_at) ELSE 0
        summary_bytes == summary_size_bytes(summary)
    IN  IF summary.chat_id \in DOMAIN c.chats
        THEN LET entry == c.chats[summary.chat_id]
             IN  [c EXCEPT
                    !.chats[summary.chat_id] =
                        [entry EXCEPT !.summary = summary,
                                      !.summary_bytes = summary_bytes,
                                      !.updated_at = updated_at],
                    !.current_bytes =
                        SaturatingSub(c.current_bytes, entry.summary_bytes) + summary_bytes]
        ELSE [c EXCEPT
                !.chats = c.chats @@
                    (summary.chat_id :> [summary |-> summary,
                                         messages |-> <<>>,
                                         updated_at |-> updated_at,
                                         message_bytes |-> 0,
                                         summary_bytes |-> summary_bytes]),
                !.current_bytes = c.current_bytes + summary_bytes]

StubSummary(chat_id) ==
    [chat_id |-> chat_id, title |-> "", peer_kind |-> "Unknown",
     last_message_id |-> None, last_message_at |-> None, unread_count |-> None]

\* entry(message.chat_id).or_insert_with(stub)
WithStub(c, chat_id) ==
    IF chat_id \in DOMAIN c.chats
    THEN c
    ELSE [c EXCEPT
            !.chats = c.chats @@
                (chat_id :> [summary |-> StubSummary(chat_id),
                             messages |-> <<>>,
                             updated_at |-> 0,
                             message_bytes |-> 0,
                             summary_bytes |-> summary_size_bytes(StubSummary(chat_id))]),
            !.current_bytes = c.current_bytes + summary_size_bytes(StubSummary(chat_id))]

\* the tail of insert_message: the summary follows the back of the deque
TouchLast(entry) ==
    IF entry.messages # <<>>
    THEN LET last == entry.messages[Len(entry.messages)]
         IN  [entry EXCEPT !.summary.last_message_id = Some(last.message_id),
                           !.summary.last_message_at = Some(last.timestamp),
                           !.updated_at = last.timestamp]
    ELSE entry

\* insert_message overwriting an entry without taking its old size off.
insert_message_keep_old_size(c, message) ==
    LET c1 == WithStub(c, message.chat_id)
        entry == c1.chats[message.chat_id]
        at == FindMessage(entry.messages, message.message_id)
        size == message_size_bytes(message)
    IN  IF at # 0
        THEN [c1 EXCEPT
                !.chats[message.chat_id] =
                    TouchLast([entry EXCEPT
                        !.messages[at] = message,
                        !.message_bytes = SaturatingSub(entry.message_bytes,
                                             message_size_bytes(entry.messages[at])) + size]),
                !.current_bytes = c1.current_bytes + size]
        ELSE [c1 EXCEPT
                !.chats[message.chat_id] =
                    TouchLast([entry EXCEPT
                        !.messages = Append(entry.messages, message),
                        !.message_bytes = entry.message_bytes + size]),
                !.current_bytes = c1.current_bytes + size]

insert_message(c, message) ==
    LET c1 == WithStub(c, message.chat_id)
        entry == c1.chats[message.chat_id]
        at == FindMessage(entry.messages, message.message_id)
        size == message_size_bytes(message)
    IN  IF at # 0
        THEN LET old_size == message_size_bytes(entry.messages[at])
             IN  [c1 EXCEPT
                    !.chats[message.chat_id] =
                        TouchLast([entry EXCEPT
                            !.messages[at] = message,
                            !.message_bytes =
                                SaturatingSub(entry.message_bytes, old_size) + size]),
                    !.current_bytes = SaturatingSub(c1.current_bytes, old_size) + size]
        ELSE [c1 EXCEPT
                !.chats[message.chat_id] =
                    TouchLast([entry EXCEPT
                        !.messages = Append(entry.messages, message),
                        !.message_bytes = entry.message_bytes + size]),
                !.current_bytes = c1.current_bytes + size]

\* update_message writing the edit time over the message's own timestamp
update_message_restamp(c, chat_id, message_id, text, timestamp) ==
    IF chat_id \notin DOMAIN c.chats
    THEN c
    ELSE LET entry == c.chats[chat_id]
             at == FindMessage(entry.messages, message_id)
         IN  IF at = 0
             THEN c
             ELSE LET old_size == message_size_bytes(entry.messages[at])
                      edited == [entry.messages[at] EXCEPT
                                    !.text = text, !.timestamp = timestamp]
                      new_size == message_size_bytes(edited)
                  IN  [c EXCEPT
                         !.chats[chat_id] =
                             [entry EXCEPT
                                 !.messages[at] = edited,
                                 !.message_bytes =
                                     SaturatingSub(entry.message_bytes, old_size) + new_size,
                                 !.updated_at = timestamp],
                         !.current_bytes =
                             SaturatingSub(c.current_bytes, old_size) + new_size]

update_message(c, chat_id, message_id, text, timestamp) ==
    IF chat_id \notin DOMAIN c.chats
    THEN c
    ELSE LET entry == c.chats[chat_id]
             at == FindMessage(entry.messages, message_id)
         IN  IF at = 0
             THEN c
             ELSE LET old_size == message_size_bytes(entry.messages[at])
                      edited == [entry.messages[at] EXCEPT
                                    !.text = text, !.edit_timestamp = Some(timestamp)]
                      new_size == message_size_bytes(edited)
                  IN  [c EXCEPT
                         !.chats[chat_id] =
                             [entry EXCEPT
                                 !.messages[at] = edited,
                                 !.message_bytes =
                                     SaturatingSub(entry.message_bytes, old_size) + new_size,
                                 !.updated_at = timestamp],
                         !.current_bytes =
                             SaturatingSub(c.current_bytes, old_size) + new_size]

\* the trimming loop popping from the back of the deque
RECURSIVE TrimChatBack(_, _)
TrimChatBack(c, chat_id) ==
    LET entry == c.chats[chat_id]
        n == Len(entry.messages)
    IN  IF n > c.limits.max_messages_per_chat
        THEN LET size == message_size_bytes(entry.messages[n])
             IN  TrimChatBack(
                    [c EXCEPT
                        !.chats[chat_id] =
                            [entry EXCEPT
                                !.messages = SubSeq(entry.messages, 1, n - 1),
                                !.message_bytes = SaturatingSub(entry.message_bytes, size)],
                        !.current_bytes = SaturatingSub(c.current_bytes, size),
                        !.stats.messages_evicted = c.stats.messages_evicted + 1],
                    chat_id)
        ELSE c

\* one round of `while entry.messages.len() > max { pop_front }` for one chat
RECURSIVE TrimChat(_, _)
TrimChat(c, chat_id) ==
    LET entry == c.chats[chat_id]
    IN  IF Len(entry.messages) > c.limits.max_messages_per_chat
        THEN LET size == message_size_bytes(Head(entry.messages))
             IN  TrimChat(
                    [c EXCEPT
                        !.chats[chat_id] =
                            [entry EXCEPT
                                !.messages = Tail(entry.messages),
                                !.message_bytes = SaturatingSub(entry.message_bytes, size)],
                        !.current_bytes = SaturatingSub(c.current_bytes, size),
                        !.stats.messages_evicted = c.stats.messages_evicted + 1],
                    chat_id)
        ELSE c

\* `for entry in self.chats.values_mut()`: each chat is trimmed on its own, so
\* the order of the iteration does not show in the result.
RECURSIVE TrimChats(_, _)
TrimChats(c, todo) ==
    IF todo = {}
    THEN c
    ELSE LET chat_id == CHOOSE i \in todo : TRUE
         IN  TrimChats(TrimChat(c, chat_id), todo \ {chat_id})

\* least_recent_chat: min_by_key over the HashMap's iteration order, which is
\* arbitrary; any chat whose updated_at is least may be the one returned.
most_recent_chat(c) ==
    {i \in DOMAIN c.chats : \A j \in DOMAIN c.chats : c.chats[i].updated_at >= c.chats[j].updated_at}
least_recent_chat(c) ==
    {i \in DOMAIN c.chats : \A j \in DOMAIN c.chats : c.chats[i].updated_at <= c.chats[j].updated_at}

remove_chat(c, chat_id) ==
    IF chat_id \in DOMAIN c.chats
    THEN LET entry == c.chats[chat_id]
         IN  [c EXCEPT
                !.chats = WithoutChat(c.chats, chat_id),
                !.stats = [chats_evicted |-> c.stats.chats_evicted + 1,
                           messages_evicted |->
                               c.stats.messages_evicted + Len(entry.messages)],
                !.current_bytes =
                    SaturatingSub(c.current_bytes,
                                  entry.message_bytes + entry.summary_bytes)]
    ELSE c

\* a loop that goes on until the count is below the limit
RECURSIVE EvictByCountToBelow(_)
EvictByCountToBelow(c) ==
    IF Cardinality(DOMAIN c.chats) >= c.limits.max_chats /\ least_recent_chat(c) # {}
    THEN UNION {EvictByCountToBelow(remove_chat(c, i)) : i \in least_recent_chat(c)}
    ELSE {c}

\* `while self.chats.len() > max_chats`: every cache the loop can end in
RECURSIVE EvictByCount(_)
EvictByCount(c) ==
    IF Cardinality(DOMAIN c.chats) > c.limits.max_chats /\ least_recent_chat(c) # {}
    THEN UNION {EvictByCount(remove_chat(c, i)) : i \in least_recent_chat(c)}
    ELSE {c}

\* `while self.current_bytes > max_bytes`: every cache the loop can end in
RECURSIVE EvictByBytes(_)
EvictByBytes(c) ==
    IF c.current_bytes > c.limits.max_bytes /\ least_recent_chat(c) # {}
    THEN UNION {EvictByBytes(remove_chat(c, i)) : i \in least_recent_chat(c)}
    ELSE {c}

\* enforce_limits without the byte rule.
enforce_limits_no_byte_rule(c) ==
    LET trimmed == IF c.limits.max_messages_per_chat > 0
                   THEN TrimChats(c, DOMAIN c.chats) ELSE c
    IN  IF c.limits.max_chats > 0 THEN EvictByCount(trimmed) ELSE {trimmed}

\* enforce_limits: the caches it can leave, each with its EvictionStats
enforce_limits(c) ==
    LET trimmed == IF c.limits.max_messages_per_chat > 0
                   THEN TrimChats(c, DOMAIN c.chats) ELSE c
        counted == IF c.limits.max_chats > 0 THEN EvictByCount(trimmed) ELSE {trimmed}
    IN  IF c.limits.max_bytes > 0
        THEN UNION {EvictByBytes(x) : x \in counted}
        ELSE counted

CachedFromNew(message) ==
    [chat_id |-> message.chat_id, message_id |-> message.message_id,
     author_id |-> message.author_id, timestamp |-> message.timestamp,
     edit_timestamp |-> None, text |-> message.text, outgoing |-> message.outgoing]

\* apply_event creating a stub chat for the receipt of a chat it does not hold
ApplyEventBodyStubOnReceipt(c, event) ==
    CASE event.kind = "MessageNew" -> insert_message(c, CachedFromNew(event))
      [] event.kind = "MessageEdited" ->
            update_message(c, event.chat_id, event.message_id, event.text, event.timestamp)
      [] event.kind = "ReadReceipt" ->
            LET c1 == WithStub(c, event.chat_id)
            IN  [c1 EXCEPT !.chats[event.chat_id].summary.unread_count = Some(0),
                           !.chats[event.chat_id].updated_at = event.timestamp]
      [] event.kind = "Typing" -> c

\* ChatCache::apply_event, before the closing enforce_limits
ApplyEventBody(c, event) ==
    CASE event.kind = "MessageNew" -> insert_message(c, CachedFromNew(event))
      [] event.kind = "MessageEdited" ->
            update_message(c, event.chat_id, event.message_id, event.text, event.timestamp)
      [] event.kind = "ReadReceipt" ->
            IF event.chat_id \in DOMAIN c.chats
            THEN [c EXCEPT !.chats[event.chat_id].summary.unread_count = Some(0),
                           !.chats[event.chat_id].updated_at = event.timestamp]
            ELSE c
      [] event.kind = "Typing" -> c

apply_event(c, event) == enforce_limits(ApplyEventBody(c, event))

upsert_chat(c, summary) == enforce_limits(insert_chat(c, summary))

RECURSIVE InsertChats(_, _)
InsertChats(c, summaries) ==
    IF summaries = <<>> THEN c
    ELSE InsertChats(insert_chat(c, Head(summaries)), Tail(summaries))

RECURSIVE InsertMessages(_, _)
InsertMessages(c, messages) ==
    IF messages = <<>> THEN c
    ELSE InsertMessages(insert_message(c, Head(messages)), Tail(messages))

from_snapshot(snapshot, lim) ==
    enforce_limits(InsertMessages(InsertChats(NewCache(lim), snapshot.chats),
                                  snapshot.messages))

(***************************************************************************)
(* The cache under every sequence of its operations                        *)
(***************************************************************************)
ChatIds == {1, 2}
MessageIds == {1, 2}
Timestamps == {1, 2}
Texts == {"", "ab"}
Titles == {"", "t"}

MessageNewEvents ==
    [kind : {"MessageNew"}, chat_id : ChatIds, message_id : MessageIds,
     author_id : {7}, timestamp : Timestamps, text : Texts, outgoing : {FALSE}]
MessageEditedEvents ==
    [kind : {"MessageEdited"}, chat_id : ChatIds, message_id : MessageIds,
     editor_id : {7}, timestamp : Timestamps, text : Texts]
ReadReceiptEvents ==
    [kind : {"ReadReceipt"}, chat_id : ChatIds, reader_id : {7},
     timestamp : Timestamps, last_read_message_id : {1}]
TypingEvents ==
    [kind : {"Typing"}, chat_id : ChatIds, user_id : {7}, timestamp : {1}]

Summary(chat_id, title, last_id, last_at) ==
    [chat_id |-> chat_id, title |-> title, peer_kind |-> "User",
     last_message_id |-> last_id, last_message_at |-> last_at,
     unread_count |-> Some(5)]
Summaries ==
    {Summary(c, t, None, None) : c \in ChatIds, t \in Titles}
        \cup {Summary(c, t, Some(1), Some(2)) : c \in ChatIds, t \in Titles}

Message(chat_id, message_id, timestamp, text) ==
    [chat_id |-> chat_id, message_id |-> message_id, author_id |-> 7,
     timestamp |-> timestamp, edit_timestamp |-> None, text |-> text,
     outgoing |-> FALSE]

SeqsUpTo2(S) == {<<>>} \cup {<<x>> : x \in S} \cup {<<x, y>> : x \in S, y \in S}

Snapshots ==
    [chats : SeqsUpTo2({Summary(1, "t", None, None), Summary(1, "", Some(1), Some(2)),
                        Summary(2, "t", Some(1), Some(1))}),
     messages : SeqsUpTo2({Message(1, 1, 1, "ab"), Message(1, 1, 2, ""),
                           Message(2, 2, 1, "ab")})]

CacheLimits(max_chats, max_messages_per_chat, max_bytes) ==
    [max_chats |-> max_chats, max_messages_per_chat |-> max_messages_per_chat,
     max_bytes |-> max_bytes]
LimitsDrawn ==
    {CacheLimits(0, 0, 0), CacheLimits(1, 1, 0), CacheLimits(2, 1, 200),
     CacheLimits(0, 0, 130)}

Cache == [chats |-> chats, limits |-> limits, current_bytes |-> current_bytes,
          stats |-> NoStats]

ReturnedWithin(bound, op, c) ==
    /\ ops < bound
    /\ ops' = ops + 1
    /\ chats' = c.chats
    /\ limits' = c.limits
    /\ current_bytes' = c.current_bytes
    /\ lastOp' = [op |-> op, stats |-> c.stats]
    /\ UNCHANGED <<sendVars, fnVars, restVars>>
Returned(op, c) == ReturnedWithin(MaxOps, op, c)

ApplyMessageNew(event) == \E c \in apply_event(Cache, event) : Returned("MessageNew", c)
ApplyMessageEdited(event) == \E c \in apply_event(Cache, event) : Returned("MessageEdited", c)
ApplyReadReceipt(event) == \E c \in apply_event(Cache, event) : Returned("ReadReceipt", c)
ApplyTyping(event) == \E c \in apply_event(Cache, event) : Returned("Typing", c)
UpsertChat(summary) == \E c \in upsert_chat(Cache, summary) : Returned("upsert_chat", c)
\* from_snapshot is a constructor: it builds the cache from the snapshot and the
\* limits alone, so taking it in place of ChatCache::new loses no reachable cache.
FromSnapshot(snapshot) ==
    /\ lastOp.op = "new"
    /\ \E c \in from_snapshot(snapshot, limits) : Returned("from_snapshot", c)

CacheInit ==
    /\ \E lim \in LimitsDrawn :
          /\ chats = NewCache(lim).chats
          /\ limits = NewCache(lim).limits
          /\ current_bytes = NewCache(lim).current_bytes
    /\ lastOp = [op |-> "new", stats |-> NoStats]
    /\ ops = 0
    /\ ParkedSend
    /\ ParkedFn
    /\ ParkedRest

CacheNext ==
    \/ \E event \in MessageNewEvents : ApplyMessageNew(event)
    \/ \E event \in MessageEditedEvents : ApplyMessageEdited(event)
    \/ \E event \in ReadReceiptEvents : ApplyReadReceipt(event)
    \/ \E event \in TypingEvents : ApplyTyping(event)
    \/ \E summary \in Summaries : UpsertChat(summary)
    \/ \E snapshot \in Snapshots : FromSnapshot(snapshot)

CacheSpec == CacheInit /\ [][CacheNext]_vars

RECURSIVE EntryBytes(_)
EntryBytes(ids) ==
    IF ids = {}
    THEN 0
    ELSE LET i == CHOOSE x \in ids : TRUE
         IN  chats[i].message_bytes + chats[i].summary_bytes + EntryBytes(ids \ {i})

\* C10: after every cache operation, evictions included, current_bytes is
\* exactly the sum of message_bytes + summary_bytes over the cached chats, and
\* it has not gone below zero.
C10_BytesAreSumOfEntries ==
    /\ current_bytes = EntryBytes(DOMAIN chats)
    /\ current_bytes >= 0
    /\ \A i \in DOMAIN chats : chats[i].message_bytes >= 0 /\ chats[i].summary_bytes >= 0
C10_Witness ==
    /\ lastOp.op = "MessageNew"
    /\ lastOp.stats.chats_evicted >= 1
    /\ lastOp.stats.messages_evicted >= 1
    /\ \E i \in DOMAIN chats : Len(chats[i].messages) >= 1
    /\ current_bytes > 0

\* the bytes of a deque counted from its messages: text length + 64 each
RECURSIVE ContentBytesOfMessages(_)
ContentBytesOfMessages(messages) ==
    IF messages = <<>> THEN 0
    ELSE Len(Head(messages).text) + 64 + ContentBytesOfMessages(Tail(messages))
\* the bytes of the chats `ids` counted from their content
RECURSIVE ContentBytes(_)
ContentBytes(ids) ==
    IF ids = {} THEN 0
    ELSE LET i == CHOOSE x \in ids : TRUE
         IN  ContentBytesOfMessages(chats[i].messages)
                 + Len(chats[i].summary.title) + 64 + ContentBytes(ids \ {i})

\* C36: in every cache state each chat's message_bytes is the sum of text
\* length + 64 over the messages in its deque, its summary_bytes is the title
\* length + 64 of its summary, and current_bytes is the size counted from
\* the content.
C36_CountersMatchContent ==
    /\ \A i \in DOMAIN chats :
          /\ chats[i].message_bytes = ContentBytesOfMessages(chats[i].messages)
          /\ chats[i].summary_bytes = Len(chats[i].summary.title) + 64
    /\ current_bytes = ContentBytes(DOMAIN chats)
C36_Witness ==
    /\ lastOp.op = "upsert_chat"
    /\ ops = 3
    /\ DOMAIN chats = {1}
    /\ chats[1].summary.title = "t"
    /\ chats[1].summary_bytes = 65
    /\ Len(chats[1].messages) = 1
    /\ chats[1].messages[1].text = "ab"
    /\ IsSome(chats[1].messages[1].edit_timestamp)
    /\ chats[1].message_bytes = 66
    /\ current_bytes = 131

\* C11: when a cache operation returns, every chat holds at most
\* max_messages_per_chat messages if that limit is > 0, there are at most
\* max_chats chats if that limit is > 0, and current_bytes <= max_bytes if that
\* limit is > 0; a limit of 0 evicts nothing.
C11_LimitsHold ==
    /\ limits.max_messages_per_chat > 0
          => \A i \in DOMAIN chats : Len(chats[i].messages) <= limits.max_messages_per_chat
    /\ limits.max_chats > 0 => Cardinality(DOMAIN chats) <= limits.max_chats
    /\ limits.max_bytes > 0 => current_bytes <= limits.max_bytes
    /\ (limits.max_chats = 0 /\ limits.max_bytes = 0) => lastOp.stats.chats_evicted = 0
    /\ (limits.max_messages_per_chat = 0 /\ lastOp.stats.chats_evicted = 0)
          => lastOp.stats.messages_evicted = 0
C11_Witness ==
    /\ limits = CacheLimits(0, 0, 130)
    /\ lastOp.op = "upsert_chat"
    /\ lastOp.stats.chats_evicted = 1
    /\ lastOp.stats.messages_evicted = 1
    /\ Cardinality(DOMAIN chats) = 1
    /\ current_bytes > 0

\* C12: in every cache state, a chat that holds at least one message has
\* summary.last_message_id and summary.last_message_at equal to the message_id
\* and the timestamp of the back of its deque.
C12_SummaryFollowsBack ==
    \A i \in DOMAIN chats :
        chats[i].messages # <<>> =>
            LET back == chats[i].messages[Len(chats[i].messages)]
            IN  /\ chats[i].summary.last_message_id = Some(back.message_id)
                /\ chats[i].summary.last_message_at = Some(back.timestamp)

\* MessageNew events arriving under a per-chat limit alone
MaxArrivals == 4
MaxArrivalId == 4
MaxPerChat == 3
ArrivalEvents ==
    [kind : {"MessageNew"}, chat_id : ChatIds, message_id : 1..MaxArrivalId,
     author_id : {7}, timestamp : {1}, text : {""}, outgoing : {FALSE}]
Arrive(event) ==
    \E c \in apply_event(Cache, event) : ReturnedWithin(MaxArrivals, "MessageNew", c)
TrimInit ==
    /\ \E n \in 1..MaxPerChat :
          /\ chats = NewCache(CacheLimits(0, n, 0)).chats
          /\ limits = NewCache(CacheLimits(0, n, 0)).limits
          /\ current_bytes = NewCache(CacheLimits(0, n, 0)).current_bytes
    /\ lastOp = [op |-> "new", stats |-> NoStats]
    /\ ops = 0
    /\ ParkedSend
    /\ ParkedFn
    /\ ParkedRest
TrimNext == \E event \in ArrivalEvents : Arrive(event)
TrimSpec == TrimInit /\ [][TrimNext]_vars

\* the message ids a chat holds, front of the deque first
IdsOf(chs, chat_id) ==
    IF chat_id \in DOMAIN chs
    THEN [j \in 1..Len(chs[chat_id].messages) |-> chs[chat_id].messages[j].message_id]
    ELSE <<>>
\* the last n elements of a sequence
LastN(seq, n) == SubSeq(seq, Max(1, Len(seq) - n + 1), Len(seq))
\* the ids in arrival order once the event's message is in the deque: a new
\* id goes to the back, a cached id keeps its place
WithArrival(ids, message_id) ==
    IF \E j \in 1..Len(ids) : ids[j] = message_id THEN ids ELSE Append(ids, message_id)

\* C20: when a MessageNew takes a chat past max_messages_per_chat (> 0) the
\* messages are popped from the front until the limit holds, so the chat keeps
\* exactly the most recently arrived max_messages_per_chat messages in arrival
\* order, and no other chat is touched.
C20_OldestArrivalsGoFirst ==
    [][lastOp'.op = "MessageNew" =>
         \A event \in ArrivalEvents :
             Arrive(event) =>
                 LET arrived == WithArrival(IdsOf(chats, event.chat_id), event.message_id)
                     kept == LastN(arrived, limits.max_messages_per_chat)
                 IN  /\ IdsOf(chats', event.chat_id) = kept
                     /\ lastOp'.stats.messages_evicted = Len(arrived) - Len(kept)
                     /\ lastOp'.stats.chats_evicted = 0
                     /\ \A i \in DOMAIN chats \ {event.chat_id} :
                           i \in DOMAIN chats' /\ chats'[i] = chats[i]]_vars
C20_Witness ==
    /\ limits.max_messages_per_chat = 3
    /\ ops = 4
    /\ IdsOf(chats, 1) = <<2, 3, 4>>
    /\ lastOp.stats.messages_evicted = 1

\* Chats created and touched under chat-count and byte limits alone
MaxEvictOps == 3
EvictChatIds == {1, 2, 3}
EvictTimestamps == {1, 2, 3}
EvictLimits ==
    {CacheLimits(2, 0, 0), CacheLimits(1, 0, 0), CacheLimits(0, 0, 200),
     CacheLimits(2, 0, 200)}
EvictEvents ==
    [kind : {"MessageNew"}, chat_id : EvictChatIds, message_id : {1},
     author_id : {7}, timestamp : EvictTimestamps, text : Texts, outgoing : {FALSE}]
EvictSummaries == {Summary(c, "", None, None) : c \in EvictChatIds}
EvictNew(event) ==
    \E c \in apply_event(Cache, event) : ReturnedWithin(MaxEvictOps, "MessageNew", c)
EvictUpsert(summary) ==
    \E c \in upsert_chat(Cache, summary) : ReturnedWithin(MaxEvictOps, "upsert_chat", c)
EvictInit ==
    /\ \E lim \in EvictLimits :
          /\ chats = NewCache(lim).chats
          /\ limits = NewCache(lim).limits
          /\ current_bytes = NewCache(lim).current_bytes
    /\ lastOp = [op |-> "new", stats |-> NoStats]
    /\ ops = 0
    /\ ParkedSend
    /\ ParkedFn
    /\ ParkedRest
EvictNext ==
    \/ \E event \in EvictEvents : EvictNew(event)
    \/ \E summary \in EvictSummaries : EvictUpsert(summary)
EvictSpec == EvictInit /\ [][EvictNext]_vars

\* a chat-count or byte limit is exceeded
Exceeds(n, bytes) ==
    \/ limits.max_chats > 0 /\ n > limits.max_chats
    \/ limits.max_bytes > 0 /\ bytes > limits.max_bytes
\* the step from the cache `pre`, mutated and not yet limited, to the cache
\* the operation leaves removed chats by recency and no more than needed
EvictedByRecency(pre) ==
    LET removed == DOMAIN pre.chats \ DOMAIN chats'
        at(i) == pre.chats[i].updated_at
        size(i) == pre.chats[i].message_bytes + pre.chats[i].summary_bytes
    IN  /\ DOMAIN chats' \subseteq DOMAIN pre.chats
        /\ \A k \in DOMAIN chats' : chats'[k] = pre.chats[k]
        /\ lastOp'.stats.chats_evicted = Cardinality(removed)
        /\ \A r \in removed : \A k \in DOMAIN chats' : at(r) <= at(k)
        /\ ~Exceeds(Cardinality(DOMAIN chats'), current_bytes')
        /\ removed = {} <=> ~Exceeds(Cardinality(DOMAIN pre.chats), pre.current_bytes)
        /\ removed # {} =>
              \E r \in removed :
                  /\ \A q \in removed : at(q) <= at(r)
                  /\ Exceeds(Cardinality(DOMAIN chats') + 1, current_bytes' + size(r))

\* C21: chats are evicted by recency: whenever there are more than max_chats
\* (> 0) chats or more than max_bytes (> 0) bytes, chats of least updated_at
\* are removed one after another until the limit holds, so no removed chat
\* has a larger updated_at than a chat that stays, and removal stops as soon
\* as the limits hold.
C21_EvictedByRecency ==
    [][/\ lastOp'.op = "MessageNew" =>
             \A event \in EvictEvents :
                 EvictNew(event) => EvictedByRecency(ApplyEventBody(Cache, event))
       /\ lastOp'.op = "upsert_chat" =>
             \A summary \in EvictSummaries :
                 EvictUpsert(summary) => EvictedByRecency(insert_chat(Cache, summary))]_vars
C21_Witness ==
    /\ limits = CacheLimits(2, 0, 0)
    /\ ops = 3
    /\ lastOp.op = "MessageNew"
    /\ lastOp.stats.chats_evicted = 1
    /\ DOMAIN chats = {2, 3}
    /\ chats[2].updated_at = 2
    /\ chats[3].updated_at = 3

\* ReadReceipt events applied to the caches from_snapshot builds
ReceiptNext ==
    \/ \E snapshot \in Snapshots : FromSnapshot(snapshot)
    \/ \E event \in ReadReceiptEvents : ApplyReadReceipt(event)
ReceiptSpec == CacheInit /\ [][ReceiptNext]_vars

\* C22: apply_event(ReadReceipt) for a cached chat sets its unread_count to 0
\* and its updated_at to the receipt timestamp and changes nothing else:
\* title and the rest of the summary, messages, byte counters, other chats;
\* for a chat that is not cached the cache is unchanged, with no stub chat.
C22_ReceiptTouchesOnlyUnread ==
    [][lastOp'.op = "ReadReceipt" =>
         \A event \in ReadReceiptEvents :
             ApplyReadReceipt(event) =>
                 /\ DOMAIN chats' = DOMAIN chats
                 /\ current_bytes' = current_bytes
                 /\ limits' = limits
                 /\ lastOp'.stats = NoStats
                 /\ \A i \in DOMAIN chats :
                       IF i = event.chat_id
                       THEN /\ chats'[i].summary =
                                  [chats[i].summary EXCEPT !.unread_count = Some(0)]
                            /\ chats'[i].updated_at = event.timestamp
                            /\ chats'[i].messages = chats[i].messages
                            /\ chats'[i].message_bytes = chats[i].message_bytes
                            /\ chats'[i].summary_bytes = chats[i].summary_bytes
                       ELSE chats'[i] = chats[i]]_vars
C22_Witness ==
    /\ lastOp.op = "ReadReceipt"
    /\ DOMAIN chats = {1, 2}
    /\ chats[2].summary.unread_count = Some(0)
    /\ chats[2].summary.title = "t"
    /\ chats[2].updated_at = 2
    /\ Len(chats[2].messages) = 1
    /\ chats[1].summary.unread_count # Some(0)

\* MessageNew and MessageEdited events applied to the caches from_snapshot
\* builds
NewMessageNext ==
    \/ \E snapshot \in Snapshots : FromSnapshot(snapshot)
    \/ \E event \in MessageEditedEvents : ApplyMessageEdited(event)
    \/ \E event \in MessageNewEvents : ApplyMessageNew(event)
NewMessageSpec == CacheInit /\ [][NewMessageNext]_vars

\* the (chat_id, message_id) of the event is cached
NewFound(event) ==
    /\ event.chat_id \in DOMAIN chats
    /\ \E j \in 1..Len(chats[event.chat_id].messages) :
          chats[event.chat_id].messages[j].message_id = event.message_id
\* the message the event carries, as it is cached
Arrival(event) ==
    [chat_id |-> event.chat_id, message_id |-> event.message_id,
     author_id |-> event.author_id, timestamp |-> event.timestamp,
     edit_timestamp |-> None, text |-> event.text, outgoing |-> event.outgoing]
\* the entry of the event's chat before the event: the cached one, or the stub
EntryBefore(event) ==
    IF event.chat_id \in DOMAIN chats
    THEN chats[event.chat_id]
    ELSE [summary |-> [chat_id |-> event.chat_id, title |-> "",
                       peer_kind |-> "Unknown", last_message_id |-> None,
                       last_message_at |-> None, unread_count |-> None],
          messages |-> <<>>, updated_at |-> 0, message_bytes |-> 0,
          summary_bytes |-> CHAT_OVERHEAD_BYTES]
\* the bytes the event adds: the new message, less the one it overwrites, plus
\* the stub chat when the chat is missing
BytesOverwritten(event) ==
    LET old == EntryBefore(event).messages
    IN  IF NewFound(event)
        THEN LET j == CHOOSE k \in 1..Len(old) : old[k].message_id = event.message_id
             IN  Len(old[j].text) + MESSAGE_OVERHEAD_BYTES
        ELSE 0
BytesArrived(event) == Len(event.text) + MESSAGE_OVERHEAD_BYTES
\* the deque with the message in it: in the place of the cached one with the
\* same id, or at the back
MessagesArrived(event) ==
    LET old == EntryBefore(event).messages
    IN  IF NewFound(event)
        THEN [j \in 1..Len(old) |->
                IF old[j].message_id = event.message_id THEN Arrival(event) ELSE old[j]]
        ELSE Append(old, Arrival(event))
\* the cache once the message is in, before the limits are enforced
ArrivedCache(event) ==
    LET before == EntryBefore(event)
        msgs == MessagesArrived(event)
        back == msgs[Len(msgs)]
        entry == [summary |-> [before.summary EXCEPT
                                  !.last_message_id = Some(back.message_id),
                                  !.last_message_at = Some(back.timestamp)],
                  messages |-> msgs,
                  updated_at |-> back.timestamp,
                  message_bytes |-> before.message_bytes - BytesOverwritten(event)
                                       + BytesArrived(event),
                  summary_bytes |-> before.summary_bytes]
    IN  [chats |-> (event.chat_id :> entry) @@ chats,
         limits |-> limits,
         current_bytes |-> current_bytes
                              + (IF event.chat_id \in DOMAIN chats
                                 THEN 0 ELSE CHAT_OVERHEAD_BYTES)
                              - BytesOverwritten(event) + BytesArrived(event),
         stats |-> NoStats]
\* no limit of the cache is exceeded
WithinLimits(c) ==
    /\ c.limits.max_chats = 0 \/ Cardinality(DOMAIN c.chats) <= c.limits.max_chats
    /\ c.limits.max_messages_per_chat = 0
          \/ \A i \in DOMAIN c.chats :
                Len(c.chats[i].messages) <= c.limits.max_messages_per_chat
    /\ c.limits.max_bytes = 0 \/ c.current_bytes <= c.limits.max_bytes
\* within every chat no two cached messages have the same message_id
UniqueMessageIds ==
    \A i \in DOMAIN chats :
        \A j, k \in 1..Len(chats[i].messages) :
            chats[i].messages[j].message_id = chats[i].messages[k].message_id => j = k

\* C28: message ids are unique within every chat, and apply_event(MessageNew)
\* leaves the cache with the message written over the cached one of the same
\* (chat_id, message_id), in its place, with edit_timestamp none and the byte
\* counters moved by the size difference, or else appended at the back, of a
\* stub chat (empty title, peer kind Unknown) when the chat was missing.
C28_NewInPlaceOrAppend ==
    /\ []UniqueMessageIds
    /\ [][lastOp'.op = "MessageNew" =>
             \A event \in MessageNewEvents :
                 ApplyMessageNew(event) =>
                     /\ chats' = ArrivedCache(event).chats
                     /\ current_bytes' = ArrivedCache(event).current_bytes]_vars

\* C28 (amended): as above, and the limits are then enforced on the cache the
\* insert leaves: the result is that cache trimmed and evicted by
\* enforce_limits, and it is exactly that cache when no limit is exceeded.
C28_NewThenEnforce ==
    /\ []UniqueMessageIds
    /\ [][lastOp'.op = "MessageNew" =>
             \A event \in MessageNewEvents :
                 ApplyMessageNew(event) =>
                     /\ \E c \in enforce_limits(ArrivedCache(event)) :
                           /\ chats' = c.chats
                           /\ current_bytes' = c.current_bytes
                           /\ lastOp'.stats = c.stats
                     /\ WithinLimits(ArrivedCache(event)) =>
                           /\ chats' = ArrivedCache(event).chats
                           /\ current_bytes' = ArrivedCache(event).current_bytes
                           /\ lastOp'.stats = NoStats]_vars
C28_Witness ==
    /\ lastOp.op = "MessageNew"
    /\ ops = 3
    /\ limits = CacheLimits(0, 0, 0)
    /\ DOMAIN chats = {1}
    /\ Len(chats[1].messages) = 2
    /\ chats[1].messages[1] = Message(1, 1, 2, "")
    /\ chats[1].messages[2] = Message(1, 2, 1, "ab")
    /\ chats[1].summary.title = ""
    /\ chats[1].summary.peer_kind = "Unknown"
    /\ chats[1].summary.last_message_id = Some(2)
    /\ chats[1].updated_at = 1
    /\ current_bytes = 3 * 64 + 2

\* the message of the event is among messages_for_chat(event.chat_id, None) of
\* the cache the step leaves
CachedAfter(event) ==
    /\ event.chat_id \in DOMAIN chats'
    /\ \E j \in 1..Len(chats'[event.chat_id].messages) :
          chats'[event.chat_id].messages[j] = Arrival(event)
\* the chat of the event is not the one the chat-count rule removes: it was
\* cached already, or the rule is off or has room, or another cached chat was
\* updated earlier than the message's timestamp
NotLeastRecent(event) ==
    \/ event.chat_id \in DOMAIN chats
    \/ limits.max_chats = 0
    \/ Cardinality(DOMAIN chats) < limits.max_chats
    \/ \E i \in DOMAIN chats : chats[i].updated_at < event.timestamp

\* C34: with max_bytes disabled, and max_chats and max_messages_per_chat
\* disabled or at least 1, the message of a MessageNew is cached when
\* apply_event returns, whatever the cache held and whatever its timestamp.
C34_NewMessageStays ==
    [][(lastOp'.op = "MessageNew" /\ limits.max_bytes = 0) =>
          \A event \in MessageNewEvents :
              ApplyMessageNew(event) => CachedAfter(event)]_vars

\* C34 (amended): the same, when the new chat is not the least recently
\* updated one of a full cache: the chat was cached before the call, or
\* max_chats is disabled or not reached, or some cached chat has an updated_at
\* lower than the message's timestamp.
C34_NewMessageStaysUnlessLeastRecent ==
    [][(lastOp'.op = "MessageNew" /\ limits.max_bytes = 0) =>
          \A event \in MessageNewEvents :
              (ApplyMessageNew(event) /\ NotLeastRecent(event)) => CachedAfter(event)]_vars
C34_Witness ==
    /\ limits = CacheLimits(1, 1, 0)
    /\ lastOp.op = "MessageNew"
    /\ lastOp.stats.chats_evicted = 1
    /\ DOMAIN chats = {2}
    /\ chats[2].messages = <<Message(2, 1, 2, "ab")>>
    /\ chats[2].summary.title = ""
    /\ ops = 2

\* MessageEdited events applied to the caches from_snapshot builds
EditNext ==
    \/ \E snapshot \in Snapshots : FromSnapshot(snapshot)
    \/ \E event \in MessageEditedEvents : ApplyMessageEdited(event)
EditSpec == CacheInit /\ [][EditNext]_vars

\* the (chat_id, message_id) of the event is cached
EditFound(event) ==
    /\ event.chat_id \in DOMAIN chats
    /\ \E j \in 1..Len(chats[event.chat_id].messages) :
          chats[event.chat_id].messages[j].message_id = event.message_id
\* the cached message as the edit leaves it, and the entry of its chat
EditedMessage(message, event) ==
    [message EXCEPT !.text = event.text, !.edit_timestamp = Some(event.timestamp)]
EntryEdited(event) ==
    LET old == chats[event.chat_id].messages
        new == chats'[event.chat_id].messages
    IN  /\ Len(new) = Len(old)
        /\ \A j \in 1..Len(old) :
              new[j] = IF old[j].message_id = event.message_id
                       THEN EditedMessage(old[j], event) ELSE old[j]
        /\ chats'[event.chat_id].updated_at = event.timestamp
        /\ chats'[event.chat_id].summary = chats[event.chat_id].summary
\* the step leaves every chat but the edited one as it was
EditedInPlace(event) ==
    /\ DOMAIN chats' = DOMAIN chats
    /\ EntryEdited(event)
    /\ \A i \in DOMAIN chats \ {event.chat_id} : chats'[i] = chats[i]
\* current_bytes once the text is replaced, before the limits are enforced
BytesAfterEdit(event) ==
    LET old == chats[event.chat_id].messages
        j == CHOOSE k \in 1..Len(old) : old[k].message_id = event.message_id
    IN  current_bytes - Len(old[j].text) + Len(event.text)

\* C19: apply_event(MessageEdited) for a cached (chat_id, message_id) replaces
\* the text, sets edit_timestamp and the chat's updated_at to the event
\* timestamp and keeps the message's position, its timestamp and the number of
\* cached messages; when the chat or message is not cached nothing changes.
C19_EditInPlace ==
    [][lastOp'.op = "MessageEdited" =>
         \A event \in MessageEditedEvents :
             ApplyMessageEdited(event) =>
                 IF EditFound(event)
                 THEN EditedInPlace(event)
                 ELSE chats' = chats /\ current_bytes' = current_bytes]_vars

\* C19 (amended): the edit is made in place as above and the limits are then
\* enforced: if max_bytes > 0 and the new text has taken current_bytes above
\* it, least recently updated chats are evicted until it fits, the edited chat
\* possibly among them, and the chats that stay are as the edit left them;
\* otherwise the cache is exactly the edited one.  An edit of a chat or
\* message that is not cached changes nothing.
C19_EditThenEnforce ==
    [][lastOp'.op = "MessageEdited" =>
         \A event \in MessageEditedEvents :
             ApplyMessageEdited(event) =>
                 IF ~EditFound(event)
                 THEN chats' = chats /\ current_bytes' = current_bytes
                 ELSE IF limits.max_bytes > 0 /\ BytesAfterEdit(event) > limits.max_bytes
                 THEN /\ lastOp'.stats.chats_evicted >= 1
                      /\ DOMAIN chats' \subseteq DOMAIN chats
                      /\ DOMAIN chats' # DOMAIN chats
                      /\ current_bytes' <= limits.max_bytes
                      /\ event.chat_id \in DOMAIN chats' => EntryEdited(event)
                      /\ \A i \in DOMAIN chats' \ {event.chat_id} : chats'[i] = chats[i]
                 ELSE /\ EditedInPlace(event)
                      /\ current_bytes' = BytesAfterEdit(event)
                      /\ lastOp'.stats = NoStats]_vars
C19_Witness ==
    /\ lastOp.op = "MessageEdited"
    /\ 1 \in DOMAIN chats
    /\ Len(chats[1].messages) = 1
    /\ chats[1].messages[1].text = "ab"
    /\ chats[1].messages[1].timestamp = 1
    /\ chats[1].messages[1].edit_timestamp = Some(2)
    /\ chats[1].updated_at = 2

(***************************************************************************)
(* Cache store: SqliteCacheStore::save / load in cache.rs                  *)
(*                                                                         *)
(* A table is a function from primary key to row.                          *)
(***************************************************************************)
\* ChatPeerKind::as_str
as_str(peer_kind) ==
    CASE peer_kind = "User" -> "user"
      [] peer_kind = "Group" -> "group"
      [] peer_kind = "Channel" -> "channel"
      [] peer_kind = "Unknown" -> "unknown"

\* ChatPeerKind::from_str
from_str(raw) ==
    CASE raw = "user" -> "User"
      [] raw = "group" -> "Group"
      [] raw = "channel" -> "Channel"
      [] OTHER -> "Unknown"

\* the values bound to INSERT INTO chats
ChatRow(chat) ==
    [chat_id |-> chat.chat_id, title |-> chat.title,
     peer_kind |-> as_str(chat.peer_kind),
     last_message_id |-> chat.last_message_id,
     last_message_at |-> chat.last_message_at,
     unread_count |-> chat.unread_count,
     updated_at |-> IF IsSome(chat.last_message_at)
                    THEN Unwrap(chat.last_message_at) ELSE 0]

\* the values bound to INSERT INTO messages
MessageRow(message) ==
    [chat_id |-> message.chat_id, message_id |-> message.message_id,
     author_id |-> message.author_id, timestamp |-> message.timestamp,
     edit_timestamp |-> message.edit_timestamp, text |-> message.text,
     outgoing |-> IF message.outgoing THEN 1 ELSE 0]

\* the ChatSummary load builds from a row of chats (updated_at is read and dropped)
ChatFromRow(row) ==
    [chat_id |-> row.chat_id, title |-> row.title,
     peer_kind |-> from_str(row.peer_kind),
     last_message_id |-> row.last_message_id,
     last_message_at |-> row.last_message_at,
     unread_count |-> row.unread_count]

\* the CachedMessage load builds from a row of messages
MessageFromRow(row) ==
    [chat_id |-> row.chat_id, message_id |-> row.message_id,
     author_id |-> row.author_id, timestamp |-> row.timestamp,
     edit_timestamp |-> row.edit_timestamp, text |-> row.text,
     outgoing |-> row.outgoing # 0]

EmptyTable == [k \in {} |-> 0]

\* `for chat in &snapshot.chats { INSERT }`: a second row with the same
\* chat_id breaks PRIMARY KEY and the statement fails.
RECURSIVE InsertChatRows(_, _)
InsertChatRows(table, chs) ==
    IF chs = <<>> THEN [ok |-> TRUE, table |-> table]
    ELSE IF Head(chs).chat_id \in DOMAIN table
         THEN [ok |-> FALSE, table |-> table]
         ELSE InsertChatRows(table @@ (Head(chs).chat_id :> ChatRow(Head(chs))), Tail(chs))

\* `for message in &snapshot.messages { INSERT }`, PRIMARY KEY (chat_id, message_id)
RECURSIVE InsertMessageRows(_, _)
InsertMessageRows(table, msgs) ==
    IF msgs = <<>> THEN [ok |-> TRUE, table |-> table]
    ELSE LET key == <<Head(msgs).chat_id, Head(msgs).message_id>>
         IN  IF key \in DOMAIN table
             THEN [ok |-> FALSE, table |-> table]
             ELSE InsertMessageRows(table @@ (key :> MessageRow(Head(msgs))), Tail(msgs))

\* save that inserts without the two DELETE statements.
save_without_delete(d, snapshot) ==
    LET c == InsertChatRows(d.chats, snapshot.chats)
        m == InsertMessageRows(d.messages, snapshot.messages)
    IN  IF c.ok /\ m.ok
        THEN [ok |-> TRUE, db |-> [chats |-> c.table, messages |-> m.table]]
        ELSE [ok |-> FALSE, db |-> d]

\* SqliteCacheStore::save: one transaction that empties both tables and inserts
\* the snapshot; a failed statement returns the error before COMMIT, and the
\* open transaction is rolled back when the connection is dropped.
save(d, snapshot) ==
    LET c == InsertChatRows(EmptyTable, snapshot.chats)
        m == InsertMessageRows(EmptyTable, snapshot.messages)
    IN  IF c.ok /\ m.ok
        THEN [ok |-> TRUE, db |-> [chats |-> c.table, messages |-> m.table]]
        ELSE [ok |-> FALSE, db |-> d]

RECURSIVE Orders(_)
Orders(S) ==
    IF S = {} THEN {<<>>}
    ELSE UNION {{<<x>> \o rest : rest \in Orders(S \ {x})} : x \in S}

TableRows(table) == {table[k] : k \in DOMAIN table}

\* ORDER BY chat_id, timestamp: rows with equal keys come in any order
OrderedByChatAndTimestamp(rows) ==
    \A i \in 1..(Len(rows) - 1) :
        \/ rows[i].chat_id < rows[i + 1].chat_id
        \/ /\ rows[i].chat_id = rows[i + 1].chat_id
           /\ rows[i].timestamp <= rows[i + 1].timestamp

\* SqliteCacheStore::load: the snapshots it can return. The SELECT on chats has
\* no ORDER BY, so its rows come in an order SQLite chooses.
load(d) ==
    {[chats |-> [i \in 1..Len(cr) |-> ChatFromRow(cr[i])],
      messages |-> [i \in 1..Len(mr) |-> MessageFromRow(mr[i])]] :
        cr \in Orders(TableRows(d.chats)),
        mr \in {o \in Orders(TableRows(d.messages)) : OrderedByChatAndTimestamp(o)}}

StoreSummaries ==
    {Summary(1, "t", None, None),
     StubSummary(2),
     [Summary(1, "", Some(1), Some(2)) EXCEPT !.peer_kind = "Group"]}

StoreMessages ==
    {Message(1, 1, 2, "ab"),
     Message(1, 2, 1, ""),
     Message(1, 3, 1, "ab"),
     [Message(2, 1, 1, "ab") EXCEPT !.outgoing = TRUE, !.edit_timestamp = Some(2)]}

StoreSnapshots == [chats : SeqsUpTo2(StoreSummaries), messages : SeqsUpTo2(StoreMessages)]

Save(snapshot) ==
    /\ db' = save(db, snapshot).db
    /\ lastSaved' = IF save(db, snapshot).ok THEN <<snapshot>> ELSE lastSaved
    /\ storeOut' = <<[op |-> "save", ok |-> save(db, snapshot).ok]>>
    /\ UNCHANGED notStoreVars

Load ==
    /\ \E snapshot \in load(db) :
          storeOut' = <<[op |-> "load", ok |-> TRUE, snapshot |-> snapshot]>>
    /\ UNCHANGED <<db, lastSaved>>
    /\ UNCHANGED notStoreVars

StoreInit ==
    /\ ParkedStore
    /\ ParkedFlush
    /\ ParkedBcast
    /\ ParkedPump
    /\ ParkedLater
    /\ ParkedSend
    /\ ParkedFn
    /\ ParkedCache

StoreNext ==
    \/ \E snapshot \in StoreSnapshots : Save(snapshot)
    \/ Load

StoreSpec == StoreInit /\ [][StoreNext]_vars

Occurrences(seq, x) == Cardinality({i \in 1..Len(seq) : seq[i] = x})
Elements(seq) == {seq[i] : i \in 1..Len(seq)}
SameMultiset(a, b) ==
    /\ Len(a) = Len(b)
    /\ \A x \in Elements(a) \cup Elements(b) : Occurrences(a, x) = Occurrences(b, x)

ValidSnapshot(snapshot) ==
    /\ \A i, j \in 1..Len(snapshot.chats) :
          snapshot.chats[i].chat_id = snapshot.chats[j].chat_id => i = j
    /\ \A i, j \in 1..Len(snapshot.messages) :
          (/\ snapshot.messages[i].chat_id = snapshot.messages[j].chat_id
           /\ snapshot.messages[i].message_id = snapshot.messages[j].message_id) => i = j

\* C13: a load that follows a committed save(s) of a valid snapshot returns the
\* chats of s and the messages of s, as multisets, with each chat's messages by
\* ascending timestamp; nothing stored before s is returned.
C13_SnapshotRoundTrip ==
    (storeOut # <<>> /\ storeOut[1].op = "load" /\ lastSaved # <<>>
        /\ ValidSnapshot(lastSaved[1]))
    => LET s == lastSaved[1]
           got == storeOut[1].snapshot
       IN  /\ SameMultiset(got.chats, s.chats)
           /\ SameMultiset(got.messages, s.messages)
           /\ \A i, j \in 1..Len(got.messages) :
                 (i < j /\ got.messages[i].chat_id = got.messages[j].chat_id)
                 => got.messages[i].timestamp <= got.messages[j].timestamp
C13_Witness ==
    /\ storeOut # <<>>
    /\ storeOut[1].op = "load"
    /\ lastSaved # <<>>
    /\ lastSaved[1].messages = <<Message(1, 1, 2, "ab"), Message(1, 2, 1, "")>>
    /\ storeOut[1].snapshot.messages = <<Message(1, 2, 1, ""), Message(1, 1, 2, "ab")>>
    /\ Len(storeOut[1].snapshot.chats) = 2

(***************************************************************************)
(* SqliteCacheStore::save statement by statement, two savers at once.       *)
(* db is the committed content of the database file; a connection inside a *)
(* transaction works on its own copy until COMMIT.                         *)
(***************************************************************************)
StatementsOf(op, rows) == [i \in 1..Len(rows) |-> [op |-> op, row |-> rows[i]]]

\* the statements of save run one after another, each in its own implicit
\* transaction
save_statements_autocommit(snapshot) ==
    <<[op |-> "open"], [op |-> "delete_messages"], [op |-> "delete_chats"]>>
        \o StatementsOf("insert_chat", snapshot.chats)
        \o StatementsOf("insert_message", snapshot.messages)

\* the statements SqliteCacheStore::save runs, in order
save_statements(snapshot) ==
    <<[op |-> "open"], [op |-> "begin"],
      [op |-> "delete_messages"], [op |-> "delete_chats"]>>
        \o StatementsOf("insert_chat", snapshot.chats)
        \o StatementsOf("insert_message", snapshot.messages)
        \o <<[op |-> "commit"]>>

\* a write statement applied to the tables `d`
Written(d, stmt) ==
    CASE stmt.op = "delete_messages" -> [ok |-> TRUE, db |-> [d EXCEPT !.messages = EmptyTable]]
      [] stmt.op = "delete_chats" -> [ok |-> TRUE, db |-> [d EXCEPT !.chats = EmptyTable]]
      [] stmt.op = "insert_chat" ->
            IF stmt.row.chat_id \in DOMAIN d.chats
            THEN [ok |-> FALSE, db |-> d]
            ELSE [ok |-> TRUE,
                  db |-> [d EXCEPT !.chats = @ @@ (stmt.row.chat_id :> ChatRow(stmt.row))]]
      [] stmt.op = "insert_message" ->
            LET key == <<stmt.row.chat_id, stmt.row.message_id>>
            IN  IF key \in DOMAIN d.messages
                THEN [ok |-> FALSE, db |-> d]
                ELSE [ok |-> TRUE,
                      db |-> [d EXCEPT !.messages = @ @@ (key :> MessageRow(stmt.row))]]

IdleConn == [todo |-> <<>>, intx |-> FALSE, work |-> <<>>, snapshot |-> <<>>]

\* `?` returns the error: the connection is dropped, which rolls back its open
\* transaction and frees the write lock; save returns Err
SaveErr(s) ==
    /\ conns' = [conns EXCEPT ![s] = IdleConn]
    /\ wlock' = IF wlock = s THEN 0 ELSE wlock
    /\ storeOut' = <<[op |-> "save", ok |-> FALSE]>>
    /\ UNCHANGED <<db, lastSaved>>

\* the statement ran; after the last one save returns Ok(())
SaveAdvance(s, c) ==
    IF Len(c.todo) = 1
    THEN /\ conns' = [conns EXCEPT ![s] = IdleConn]
         /\ storeOut' = <<[op |-> "save", ok |-> TRUE]>>
         /\ lastSaved' = c.snapshot
    ELSE /\ conns' = [conns EXCEPT ![s] = [c EXCEPT !.todo = Tail(c.todo)]]
         /\ UNCHANGED <<storeOut, lastSaved>>

\* store.save(&snapshot) is called on a blocking thread
SaveCall(s, snapshot) ==
    /\ conns[s].todo = <<>>
    /\ conns' = [conns EXCEPT ![s] = [IdleConn EXCEPT !.todo = save_statements(snapshot),
                                                     !.snapshot = <<snapshot>>]]
    /\ UNCHANGED <<db, lastSaved, storeOut, wlock>>
    /\ UNCHANGED notTxVars

\* the next statement of saver s is executed by SQLite
SaveStep(s) ==
    /\ conns[s].todo # <<>>
    /\ LET c == conns[s]
           stmt == Head(c.todo)
       IN  CASE stmt.op = "open" ->
                  /\ SaveAdvance(s, c)
                  /\ UNCHANGED <<db, wlock>>
             [] stmt.op = "begin" ->
                  IF wlock # 0
                  THEN SaveErr(s)
                  ELSE /\ wlock' = s
                       /\ SaveAdvance(s, [c EXCEPT !.intx = TRUE, !.work = <<db>>])
                       /\ UNCHANGED db
             [] stmt.op = "commit" ->
                  IF c.intx
                  THEN /\ db' = c.work[1]
                       /\ wlock' = 0
                       /\ SaveAdvance(s, [c EXCEPT !.intx = FALSE, !.work = <<>>])
                  ELSE SaveErr(s)
             [] OTHER ->
                  IF c.intx
                  THEN IF Written(c.work[1], stmt).ok
                       THEN /\ SaveAdvance(s, [c EXCEPT !.work = <<Written(c.work[1], stmt).db>>])
                            /\ UNCHANGED <<db, wlock>>
                       ELSE SaveErr(s)
                  ELSE IF wlock = 0 /\ Written(db, stmt).ok
                       THEN /\ db' = Written(db, stmt).db
                            /\ SaveAdvance(s, c)
                            /\ UNCHANGED wlock
                       ELSE SaveErr(s)
    /\ UNCHANGED notTxVars

\* the next statement fails for a reason outside the program (I/O error, full
\* disk, busy database), or the blocking task fails
SaveFail(s) ==
    /\ conns[s].todo # <<>>
    /\ SaveErr(s)
    /\ UNCHANGED notTxVars

TxSummaries == {Summary(1, "t", None, None), StubSummary(2)}
TxMessages == {Message(1, 1, 2, "ab"), Message(2, 1, 1, "")}
TxSnapshots ==
    {[chats |-> <<>>, messages |-> <<>>],
     [chats |-> <<Summary(1, "t", None, None)>>, messages |-> <<Message(1, 1, 2, "ab")>>],
     [chats |-> <<StubSummary(2), Summary(1, "t", None, None)>>,
      messages |-> <<Message(2, 1, 1, "")>>],
     [chats |-> <<StubSummary(2)>>,
      messages |-> <<Message(2, 1, 1, ""), Message(2, 1, 1, "")>>]}

TxInit ==
    /\ ParkedStore
    /\ ParkedTx
    /\ ParkedLock
    /\ ParkedFront
    /\ ParkedFlush
    /\ ParkedBcast
    /\ ParkedPump
    /\ ParkedSend
    /\ ParkedFn
    /\ ParkedCache
TxNext ==
    \/ \E s \in Savers : \E snapshot \in TxSnapshots : SaveCall(s, snapshot)
    \/ \E s \in Savers : SaveStep(s)
    \/ \E s \in Savers : SaveFail(s)
    \/ Load
TxSpec == TxInit /\ [][TxNext]_vars

\* the tables that hold exactly the rows of a snapshot
TablesOf(snapshot) ==
    [chats |-> [k \in {snapshot.chats[i].chat_id : i \in 1..Len(snapshot.chats)} |->
                   ChatRow(CHOOSE x \in Elements(snapshot.chats) : x.chat_id = k)],
     messages |-> [k \in {<<snapshot.messages[i].chat_id, snapshot.messages[i].message_id>> :
                            i \in 1..Len(snapshot.messages)} |->
                      MessageRow(CHOOSE x \in Elements(snapshot.messages) :
                                    <<x.chat_id, x.message_id>> = k)]]
\* the durable content: nothing before the first save that succeeded, then
\* the whole snapshot of the latest one
Durable == IF lastSaved = <<>> THEN [chats |-> <<>>, messages |-> <<>>]
           ELSE TablesOf(lastSaved[1])

\* C24: save is atomic: whatever step of a save fails, and however two saves
\* interleave, the database holds the complete snapshot of the last save that
\* succeeded (never an empty or partly written one), a failed save changes
\* nothing, and a load returns that snapshot.
C24_SaveIsAtomic ==
    /\ [](/\ db = Durable
          /\ (storeOut # <<>> /\ storeOut[1].op = "load") =>
                LET was == IF lastSaved = <<>> THEN [chats |-> <<>>, messages |-> <<>>]
                           ELSE lastSaved[1]
                IN  /\ SameMultiset(storeOut[1].snapshot.chats, was.chats)
                    /\ SameMultiset(storeOut[1].snapshot.messages, was.messages))
    /\ [][(storeOut' # <<>> /\ storeOut'[1] = [op |-> "save", ok |-> FALSE])
             => db' = db /\ lastSaved' = lastSaved]_vars
C24_Witness ==
    /\ lastSaved = <<[chats |-> <<Summary(1, "t", None, None)>>,
                      messages |-> <<Message(1, 1, 2, "ab")>>]>>
    /\ storeOut = <<[op |-> "save", ok |-> FALSE]>>
    /\ conns[1].todo = <<>>
    /\ conns[2].intx
    /\ conns[2].work = <<[chats |-> <<>>, messages |-> <<>>]>>
    /\ wlock = 2
    /\ db = Durable

(***************************************************************************)
(* Cache flusher: CacheManager and spawn_flush_task in cache.rs            *)
(***************************************************************************)
MaxMutations == 2
MaxFlushTicks == 4
MaxDebounce == 2

\* a Dirty that leaves the deadline as it found it
DeadlineKeptPending(pending, t, d) == pending

\* next_flush = Some(Instant::now() + debounce)
DeadlineAfterDirty(pending, t, d) == Some(t + d)

\* Leaving the loop without a flush.
OnShutdownNoFlush(isDirty) == "done"

\* Some(FlushCommand::Shutdown) | None => { if dirty { flush_snapshot } break }
OnShutdown(isDirty) == IF isDirty THEN "final_save" ELSE "done"

\* flush_snapshot begins: the snapshot is read from the shared cache now
SaveStarted(kind) ==
    Append(saves, [kind |-> kind, at |-> fnow, version |-> version, rcvd |-> rcvd,
                   last_mut |-> last_mut, burst_start |-> burst_start,
                   last_dirty |-> last_dirty, done |-> FALSE, result |-> "pending",
                   overtaken |-> FALSE])

\* what spawn_blocking(store.save).await gives flush_snapshot: Ok(Ok(())),
\* Ok(Err(err)), or Err(err) when the blocking task itself failed
SaveResults == {"Ok", "Err", "JoinError"}

\* flush_snapshot returns: it logs the result and hands nothing back
SaveCompleted(result) ==
    [saves EXCEPT ![Len(saves)].done = TRUE, ![Len(saves)].result = result,
                  ![Len(saves)].overtaken = version > saves[Len(saves)].version]

\* a flush task that gives up when a save fails
AfterSaveStopOnError(result) == IF result = "Ok" THEN "loop" ELSE "done"

\* the timer arm after flush_snapshot, whatever it logged: dirty = false,
\* next_flush = None, and round the loop again
AfterSave(result) == "loop"

\* a send that is also lost while the task is inside flush_snapshot
FlushSendLostWhileSaving(cmd) ==
    IF fpc \in {"done", "save"} THEN flush_rx ELSE Append(flush_rx, cmd)

\* a send on flush_tx; it fails, and is ignored, once the receiver is gone
FlushSend(cmd) == IF fpc = "done" THEN flush_rx ELSE Append(flush_rx, cmd)

\* CacheManager::apply_event / upsert_chat: mutate the cache, then send Dirty
Mutate ==
    /\ mgr = "live"
    /\ version < MaxMutations
    /\ version' = version + 1
    /\ last_mut' = Some(fnow)
    /\ IF last_mut = None \/ fnow - Unwrap(last_mut) >= debounce
       THEN bursts' = bursts + 1 /\ burst_start' = Some(fnow)
       ELSE UNCHANGED <<bursts, burst_start>>
    /\ flush_rx' = FlushSend("Dirty")
    /\ UNCHANGED <<debounce, mgr, fpc, dirty, next_flush, fnow, fticks, rcvd,
                   last_dirty, saves, fexit>>
    /\ UNCHANGED notFlushVars

\* CacheManager::shutdown: send Shutdown, then await the task
Shutdown ==
    /\ mgr = "live"
    /\ mgr' = "stopping"
    /\ flush_rx' = FlushSend("Shutdown")
    /\ UNCHANGED <<debounce, fpc, dirty, next_flush, fnow, fticks, version, last_mut,
                   bursts, burst_start, rcvd, last_dirty, saves, fexit>>
    /\ UNCHANGED notFlushVars

\* CacheManager::shutdown: self.join.await completes
ShutdownReturn ==
    /\ mgr = "stopping"
    /\ fpc = "done"
    /\ mgr' = "returned"
    /\ UNCHANGED <<debounce, flush_rx, fpc, dirty, next_flush, fnow, fticks, version,
                   last_mut, bursts, burst_start, rcvd, last_dirty, saves, fexit>>
    /\ UNCHANGED notFlushVars

\* the CacheManager is dropped without shutdown: flush_tx closes
DropManager ==
    /\ mgr = "live"
    /\ mgr' = "dropped"
    /\ UNCHANGED <<debounce, flush_rx, fpc, dirty, next_flush, fnow, fticks, version,
                   last_mut, bursts, burst_start, rcvd, last_dirty, saves, fexit>>
    /\ UNCHANGED notFlushVars

\* flush_rx.recv() yields Some(FlushCommand::Dirty), in either arm of the loop
FlushRecvDirty ==
    /\ fpc = "loop"
    /\ flush_rx # <<>>
    /\ Head(flush_rx) = "Dirty"
    /\ flush_rx' = Tail(flush_rx)
    /\ dirty' = TRUE
    /\ next_flush' = DeadlineAfterDirty(next_flush, fnow, debounce)
    /\ rcvd' = rcvd + 1
    /\ last_dirty' = Some(fnow)
    /\ UNCHANGED <<debounce, mgr, fpc, fnow, fticks, version, last_mut, bursts, burst_start, saves,
                   fexit>>
    /\ UNCHANGED notFlushVars

\* flush_rx.recv() yields Some(FlushCommand::Shutdown)
FlushRecvShutdown ==
    /\ fpc = "loop"
    /\ flush_rx # <<>>
    /\ Head(flush_rx) = "Shutdown"
    /\ flush_rx' = Tail(flush_rx)
    /\ fexit' = Some([dirty |-> dirty, cause |-> "Shutdown"])
    /\ fpc' = OnShutdown(dirty)
    /\ saves' = IF OnShutdown(dirty) = "final_save" THEN SaveStarted("final") ELSE saves
    /\ UNCHANGED <<debounce, mgr, dirty, next_flush, fnow, fticks, version, last_mut,
                   bursts, burst_start, rcvd, last_dirty>>
    /\ UNCHANGED notFlushVars

\* flush_rx.recv() yields None: every sender is gone and the channel is empty
FlushRecvClosed ==
    /\ fpc = "loop"
    /\ flush_rx = <<>>
    /\ mgr = "dropped"
    /\ fexit' = Some([dirty |-> dirty, cause |-> "Closed"])
    /\ fpc' = OnShutdown(dirty)
    /\ saves' = IF OnShutdown(dirty) = "final_save" THEN SaveStarted("final") ELSE saves
    /\ UNCHANGED <<debounce, mgr, flush_rx, dirty, next_flush, fnow, fticks, version,
                   last_mut, bursts, burst_start, rcvd, last_dirty>>
    /\ UNCHANGED notFlushVars

\* select! arm sleep_until(deadline): it may be taken as soon as the deadline
\* has passed, whatever waits in the channel
FlushTimer ==
    /\ fpc = "loop"
    /\ IsSome(next_flush)
    /\ fnow >= Unwrap(next_flush)
    /\ IF dirty
       THEN /\ fpc' = "save"
            /\ saves' = SaveStarted("timer")
            /\ UNCHANGED next_flush
       ELSE /\ next_flush' = None
            /\ UNCHANGED <<fpc, saves>>
    /\ UNCHANGED <<debounce, mgr, flush_rx, dirty, fnow, fticks, version, last_mut,
                   bursts, burst_start, rcvd, last_dirty, fexit>>
    /\ UNCHANGED notFlushVars

\* flush_snapshot(..).await returns in the timer arm: dirty = false; next_flush = None
FlushSaved ==
    /\ fpc = "save"
    /\ \E result \in SaveResults :
          /\ saves' = SaveCompleted(result)
          /\ fpc' = AfterSave(result)
    /\ dirty' = FALSE
    /\ next_flush' = None
    /\ UNCHANGED <<debounce, mgr, flush_rx, fnow, fticks, version, last_mut, bursts, burst_start,
                   rcvd, last_dirty, fexit>>
    /\ UNCHANGED notFlushVars

\* flush_snapshot(..).await returns before `break`
FlushFinalSaved ==
    /\ fpc = "final_save"
    /\ \E result \in SaveResults : saves' = SaveCompleted(result)
    /\ fpc' = "done"
    /\ UNCHANGED <<debounce, mgr, flush_rx, dirty, next_flush, fnow, fticks, version,
                   last_mut, bursts, burst_start, rcvd, last_dirty, fexit>>
    /\ UNCHANGED notFlushVars

FlushTick ==
    /\ fticks < MaxFlushTicks
    /\ fnow' = fnow + 1
    /\ fticks' = fticks + 1
    /\ UNCHANGED <<debounce, mgr, flush_rx, fpc, dirty, next_flush, version, last_mut,
                   bursts, burst_start, rcvd, last_dirty, saves, fexit>>
    /\ UNCHANGED notFlushVars

FlusherInit ==
    /\ \E d \in 1..MaxDebounce : FlushInit(d)
    /\ ParkedStore
    /\ ParkedBcast
    /\ ParkedPump
    /\ ParkedLater
    /\ ParkedSend
    /\ ParkedFn
    /\ ParkedCache

FlusherNext ==
    \/ Mutate
    \/ Shutdown
    \/ ShutdownReturn
    \/ DropManager
    \/ FlushRecvDirty
    \/ FlushRecvShutdown
    \/ FlushRecvClosed
    \/ FlushTimer
    \/ FlushSaved
    \/ FlushFinalSaved
    \/ FlushTick

FlusherSpec == FlusherInit /\ [][FlusherNext]_vars

\* The flusher with time that passes, a sleep_until that wakes the select! once
\* its deadline has passed, and a flush_snapshot that returns.
FlushLiveSpec ==
    FlusherSpec /\ WF_vars(FlushTick) /\ WF_vars(FlushTimer) /\ WF_vars(FlushSaved)

TimerSaves == {i \in 1..Len(saves) : saves[i].kind = "timer"}
FinalSaves == {i \in 1..Len(saves) : saves[i].kind = "final"}

\* C14: a burst of mutations, each less than debounce after the one before,
\* gives exactly one save, no earlier than debounce after the last mutation of
\* the burst: there are no more timer saves than bursts, and a timer save that
\* starts when the latest burst already has a second mutation starts no sooner
\* than debounce after the latest mutation.
C14_BurstGivesOneSave ==
    /\ Cardinality(TimerSaves) <= bursts
    /\ \A i \in TimerSaves :
          Unwrap(saves[i].burst_start) < Unwrap(saves[i].last_mut)
          => saves[i].at >= Unwrap(saves[i].last_mut) + debounce

C14_Witness ==
    /\ debounce = 2
    /\ bursts = 1
    /\ version = 2
    /\ last_mut = Some(1)
    /\ Len(saves) = 1
    /\ saves[1].kind = "timer"
    /\ saves[1].version = 2
    /\ saves[1].at = 3
    /\ saves[1].done
    /\ fpc = "loop"
    /\ next_flush = None

\* C15: on Shutdown, or when its channel closes, the flush task makes exactly
\* one final save if dirty is set and none if it is clear, and then exits;
\* shutdown returns only once the task has exited with that save completed,
\* and no save is running or started after the exit.
C15_FinalFlushOnExit ==
    /\ fexit = None => FinalSaves = {}
    /\ IsSome(fexit) =>
          /\ Cardinality(FinalSaves) = IF Unwrap(fexit).dirty THEN 1 ELSE 0
          /\ fpc \in {"final_save", "done"}
          /\ \A i \in FinalSaves : i = Len(saves)
    /\ fpc = "done" => IsSome(fexit) /\ \A i \in 1..Len(saves) : saves[i].done
    /\ mgr = "returned" => fpc = "done"
C15_Witness ==
    /\ mgr = "returned"
    /\ Unwrap(fexit) = [dirty |-> TRUE, cause |-> "Shutdown"]
    /\ Len(saves) = 2
    /\ saves[1].kind = "timer"
    /\ saves[2].kind = "final"
    /\ saves[2].version = 2
    /\ saves[2].done

\* the Dirty commands received when the latest save took its snapshot
RcvdAtLastSave == IF saves = <<>> THEN 0 ELSE saves[Len(saves)].rcvd
\* a Dirty has been received that no save has covered yet, and the task is
\* waiting for its deadline with the flag set
FlushOwed == fpc = "loop" /\ dirty /\ IsSome(next_flush)
FailedSaves == {i \in 1..Len(saves) : saves[i].done /\ saves[i].result # "Ok"}

\* C40: whenever dirty is true a flush deadline is pending; once the deadline
\* of a dirty flusher has passed the timer arm can be taken and it starts a
\* save, the flusher never leaves its loop while dirty without starting a
\* save, and the return of a timer save clears both dirty and the deadline.
\* A flusher that is dirty in its loop therefore comes to start a save (or has
\* had dirty cleared by one), unless the clock of the model stops short of the
\* deadline.
C40_DirtyHasDeadline ==
    /\ [](dirty => IsSome(next_flush))
    /\ [](fpc = "loop" /\ dirty /\ IsSome(next_flush) /\ fnow >= Unwrap(next_flush)
            => ENABLED FlushTimer)
    /\ [][FlushTimer /\ dirty =>
             /\ fpc' = "save"
             /\ Len(saves') = Len(saves) + 1
             /\ saves'[Len(saves')].kind = "timer"]_vars
    /\ [][fpc = "loop" /\ dirty /\ fpc' # "loop" => Len(saves') = Len(saves) + 1]_vars
    /\ [][FlushSaved => ~dirty' /\ next_flush' = None]_vars
    /\ (dirty /\ fpc = "loop") ~>
          \/ fpc # "loop"
          \/ ~dirty
          \/ fticks = MaxFlushTicks /\ IsSome(next_flush) /\ fnow < Unwrap(next_flush)
C40_Witness ==
    /\ fpc = "loop"
    /\ ~dirty
    /\ next_flush = None
    /\ flush_rx = <<>>
    /\ rcvd = 2
    /\ Len(saves) = 1
    /\ saves[1].kind = "timer"
    /\ saves[1].done
    /\ saves[1].at = Unwrap(saves[1].last_dirty) + debounce

\* C29: a save that fails, by an error result or a failed blocking task, does
\* not end the flush task: the task ends only on Shutdown or a closed channel,
\* and the step that completes a timer save goes back to receiving.  A Dirty
\* received since the latest snapshot keeps the task owing a flush until a
\* save starts, and every save takes its snapshot of the cache as it is when
\* the save starts, never the one of an earlier save.
C29_FailedSaveKeepsFlushing ==
    /\ [](fpc = "done" => IsSome(fexit))
    /\ [](rcvd > RcvdAtLastSave => FlushOwed)
    /\ [][fpc = "save" /\ fpc' # "save" => fpc' = "loop"]_vars
    /\ [][FlushOwed =>
             \/ FlushOwed'
             \/ /\ Len(saves') = Len(saves) + 1
                /\ saves'[Len(saves')].version = version
                /\ saves'[Len(saves')].rcvd = rcvd]_vars
C29_Witness ==
    /\ Len(saves) = 2
    /\ saves[1].kind = "timer"
    /\ saves[1].done
    /\ saves[1].result = "Err"
    /\ saves[1].version = 1
    /\ saves[2].kind = "timer"
    /\ saves[2].version = 2
    /\ saves[2].rcvd = 2
    /\ Unwrap(saves[2].last_dirty) > saves[1].at
    /\ FailedSaves = {1}

\* the version of the cache in the store: the snapshot of the latest save that
\* succeeded, or the loaded one
SavedVersion ==
    LET ok == {i \in 1..Len(saves) : saves[i].done /\ saves[i].result = "Ok"}
    IN  IF ok = {} THEN 0 ELSE saves[CHOOSE i \in ok : \A j \in ok : j <= i].version

\* C32: when every save succeeded, the store holds every mutation once
\* shutdown has returned, those made while an earlier save was running
\* included; and before that, a mutation the store does not hold yet has its
\* Dirty in the channel, is owed a flush by the task, or is in a running save.
C32_NoMutationLost ==
    (\A i \in 1..Len(saves) : saves[i].done => saves[i].result = "Ok")
    => /\ mgr = "returned" => SavedVersion = version
       /\ (fpc # "done" /\ SavedVersion < version) =>
             \/ \E i \in 1..Len(flush_rx) : flush_rx[i] = "Dirty"
             \/ dirty
             \/ fpc \in {"save", "final_save"} /\ saves[Len(saves)].version = version
C32_Witness ==
    /\ mgr = "returned"
    /\ version = 2
    /\ Len(saves) = 2
    /\ saves[1].kind = "timer"
    /\ saves[1].version = 1
    /\ saves[1].overtaken
    /\ saves[1].result = "Ok"
    /\ saves[2].result = "Ok"
    /\ saves[2].version = 2
    /\ SavedVersion = 2

(***************************************************************************)
(* Reloading a cache from its own snapshot: ChatCache::snapshot and         *)
(* from_snapshot in cache.rs                                               *)
(***************************************************************************)
RECURSIVE SnapshotMessages(_, _)
SnapshotMessages(c, order) ==
    IF order = <<>> THEN <<>>
    ELSE c.chats[Head(order)].messages \o SnapshotMessages(c, Tail(order))

\* ChatCache::snapshot when self.chats.values() yields the chats in `order`:
\* the summaries in that order, and the messages chat after chat
snapshot_in(c, order) ==
    [chats |-> [i \in 1..Len(order) |-> c.chats[order[i]].summary],
     messages |-> SnapshotMessages(c, order)]

\* the caches from_snapshot(c.snapshot(), c.limits) can give
Reloaded(c) ==
    UNION {from_snapshot(snapshot_in(c, order), c.limits) : order \in Orders(DOMAIN c.chats)}

\* C35: a cache reloaded from its own snapshot under the same limits has the
\* same chats with the same summaries and the same message sequences, the
\* same current_bytes, and nothing was evicted on the way.
C35_ReloadIsLossless ==
    \A r \in Reloaded(Cache) :
        /\ DOMAIN r.chats = DOMAIN chats
        /\ \A i \in DOMAIN chats :
              /\ r.chats[i].summary = chats[i].summary
              /\ r.chats[i].messages = chats[i].messages
        /\ r.current_bytes = current_bytes
        /\ r.stats = NoStats

(***************************************************************************)
(* The cache behind its lock: CacheManager::apply_event / upsert_chat and   *)
(* the snapshot of flush_snapshot, on Arc<RwLock<ChatCache>>                *)
(*                                                                         *)
(* rw is <<[holder, call]>> while a writer holds the write guard.  The     *)
(* flush task may take its snapshot at any moment the lock lets it.        *)
(***************************************************************************)
MaxLockOps == 3
MaxSnaps == 2

LockLimits == {CacheLimits(1, 1, 0), CacheLimits(0, 0, 130), CacheLimits(0, 0, 0)}
LockCalls ==
    [kind : {"apply_event"},
     event : [kind : {"MessageNew"}, chat_id : ChatIds, message_id : {1},
              author_id : {7}, timestamp : Timestamps, text : {"ab"},
              outgoing : {FALSE}]]
    \cup [kind : {"upsert_chat"}, summary : {Summary(1, "t", None, None)}]

\* ChatCache::snapshot: the summary and the messages of every chat.  The order
\* of the chats in the two vectors is the HashMap's and is not represented.
snapshot(c) ==
    [i \in DOMAIN c.chats |->
        [summary |-> c.chats[i].summary, messages |-> c.chats[i].messages]]

\* a read that does not wait for the writer
ReadGrantedAlways == TRUE

\* inner.read() returns: no writer holds the lock
ReadGranted == rw = <<>>

\* inner.write() returns: nobody holds the lock
WriterAcquire(w, call) ==
    /\ writers[w] = "idle"
    /\ rw = <<>>
    /\ ops < MaxLockOps
    /\ ops' = ops + 1
    /\ rw' = <<[holder |-> w, call |-> call]>>
    /\ writers' = [writers EXCEPT ![w] = "locked"]
    /\ UNCHANGED <<chats, limits, current_bytes, lastOp, snaps, hist>>
    /\ UNCHANGED notLockVars

\* ChatCache::apply_event / upsert_chat up to the closing enforce_limits
WriterMutate(w) ==
    /\ writers[w] = "locked"
    /\ LET call == rw[1].call
           c == IF call.kind = "apply_event"
                THEN ApplyEventBody(Cache, call.event)
                ELSE insert_chat(Cache, call.summary)
       IN  /\ chats' = c.chats
           /\ current_bytes' = c.current_bytes
    /\ writers' = [writers EXCEPT ![w] = "mutated"]
    /\ UNCHANGED <<limits, lastOp, ops, rw, snaps, hist>>
    /\ UNCHANGED notLockVars

\* the closing enforce_limits of the call
WriterEnforce(w) ==
    /\ writers[w] = "mutated"
    /\ \E c \in enforce_limits(Cache) :
          /\ chats' = c.chats
          /\ current_bytes' = c.current_bytes
          /\ lastOp' = [op |-> rw[1].call.kind, stats |-> c.stats]
    /\ writers' = [writers EXCEPT ![w] = "enforced"]
    /\ UNCHANGED <<limits, ops, rw, snaps, hist>>
    /\ UNCHANGED notLockVars

\* flush_tx.send(Dirty), and the guard is dropped as the call returns
WriterRelease(w) ==
    /\ writers[w] = "enforced"
    /\ rw' = <<>>
    /\ writers' = [writers EXCEPT ![w] = "idle"]
    /\ hist' = Append(hist, snapshot(Cache))
    /\ UNCHANGED <<chats, limits, current_bytes, lastOp, ops, snaps>>
    /\ UNCHANGED notLockVars

\* flush_snapshot: inner.read(), cache.snapshot(), guard dropped
FlushSnapshot ==
    /\ Len(snaps) < MaxSnaps
    /\ ReadGranted
    /\ snaps' = Append(snaps, [snapshot |-> snapshot(Cache), calls |-> Len(hist)])
    /\ UNCHANGED <<chats, limits, current_bytes, lastOp, ops, rw, writers, hist>>
    /\ UNCHANGED notLockVars

LockInit ==
    /\ \E lim \in LockLimits :
          /\ chats = NewCache(lim).chats
          /\ limits = NewCache(lim).limits
          /\ current_bytes = NewCache(lim).current_bytes
    /\ lastOp = [op |-> "new", stats |-> NoStats]
    /\ ops = 0
    /\ rw = <<>>
    /\ writers = [w \in Writers |-> "idle"]
    /\ snaps = <<>>
    /\ hist = <<snapshot(NewCache(CacheLimits(0, 0, 0)))>>
    /\ ParkedSend
    /\ ParkedFn
    /\ ParkedStore
    /\ ParkedFlush
    /\ ParkedBcast
    /\ ParkedPump
    /\ ParkedTx
    /\ ParkedFront

LockNext ==
    \/ \E w \in Writers, call \in LockCalls : WriterAcquire(w, call)
    \/ \E w \in Writers : WriterMutate(w)
    \/ \E w \in Writers : WriterEnforce(w)
    \/ \E w \in Writers : WriterRelease(w)
    \/ FlushSnapshot

LockSpec == LockInit /\ [][LockNext]_vars

\* C30: every snapshot the flush task takes is the cache as the calls completed
\* before it left it: hist[n] is the cache after the first n - 1 completed
\* calls, and a snapshot taken after n - 1 completed calls equals hist[n]; it
\* never shows a call half applied.
C30_SnapshotsArePrefixes ==
    \A k \in 1..Len(snaps) :
        /\ snaps[k].calls \in 1..Len(hist)
        /\ snaps[k].snapshot = hist[snaps[k].calls]
C30_Witness ==
    /\ limits = CacheLimits(1, 1, 0)
    /\ Len(snaps) = 2
    /\ snaps[1].calls = 2
    /\ snaps[2].calls = 3
    /\ DOMAIN snaps[1].snapshot = {1}
    /\ DOMAIN snaps[2].snapshot = {2}
    /\ lastOp.stats.chats_evicted = 1
    /\ \E w \in Writers : writers[w] = "mutated"

\* ---------------------------------------------------------------------------
\* Event stream: the broadcast channel of spawn_domain_event_pump and
\* EventReceiver::recv.  One subscriber, subscribed before the first send.
\* Event i is the i-th event the pump sent.
\* ---------------------------------------------------------------------------
MaxBuffer == 3
MaxSends == 5

\* usize::next_power_of_two
next_power_of_two(n) ==
    LET P == {2 ^ k : k \in 0..n}
    IN  CHOOSE p \in P : p >= n /\ \A q \in P : q >= n => p <= q

\* broadcast::channel(buffer): the channel keeps next_power_of_two(buffer)
\* slots
Capacity(buffer) == next_power_of_two(buffer)

\* position of the oldest event still held by the channel
Oldest(sent, cap) == Max(1, sent - cap + 1)

\* self.inner.recv() when an event at or after `next` has been sent: the
\* result, and the subscriber's new position
broadcast_recv_skip_to_newest(sent, next, cap) ==
    IF next < Oldest(sent, cap)
    THEN [kind |-> "Lagged", value |-> sent - next, next |-> sent]
    ELSE [kind |-> "Ok", value |-> next, next |-> next + 1]
broadcast_recv(sent, next, cap) ==
    IF next < Oldest(sent, cap)
    THEN [kind |-> "Lagged", value |-> Oldest(sent, cap) - next,
          next |-> Oldest(sent, cap)]
    ELSE [kind |-> "Ok", value |-> next, next |-> next + 1]

\* sender_task.send(event)
BroadcastSend ==
    /\ bsent < MaxSends
    /\ bsent' = bsent + 1
    /\ UNCHANGED <<bbuffer, bnext, bgot>>
    /\ UNCHANGED notBcastVars

\* EventReceiver::recv; it stays pending while nothing new has been sent
SubscriberRecv ==
    /\ bnext <= bsent
    /\ LET r == broadcast_recv(bsent, bnext, Capacity(bbuffer))
       IN  /\ bnext' = r.next
           /\ bgot' = Append(bgot, [kind |-> r.kind, value |-> r.value,
                                    behind |-> bsent - (bnext - 1),
                                    sent |-> bsent,
                                    oldest |-> Oldest(bsent, Capacity(bbuffer))])
    /\ UNCHANGED <<bbuffer, bsent>>
    /\ UNCHANGED notBcastVars

BroadcastSpecInit ==
    /\ \E buffer \in 1..MaxBuffer : BroadcastInit(buffer)
    /\ ParkedSend
    /\ ParkedFn
    /\ ParkedCache
    /\ ParkedStore
    /\ ParkedFlush
    /\ ParkedPump
    /\ ParkedLater
BroadcastNext == BroadcastSend \/ SubscriberRecv
BroadcastSpec == BroadcastSpecInit /\ [][BroadcastNext]_vars

\* positions of bgot that hold an event / a Lagged
OkAt == {i \in 1..Len(bgot) : bgot[i].kind = "Ok"}
LaggedAt == {i \in 1..Len(bgot) : bgot[i].kind = "Lagged"}
\* the first event not yet accounted for before the i-th recv
ExpectedAt(i) ==
    IF i = 1 THEN 1
    ELSE IF bgot[i - 1].kind = "Ok" THEN bgot[i - 1].value + 1
         ELSE bgot[i - 1].oldest
\* delivered events are in sending order, and each Lagged(n) counts exactly
\* the n >= 1 events between the last one accounted for and the oldest one
\* held, so no gap is reported twice
OrderedWithGapsCounted ==
    \A i \in 1..Len(bgot) :
        IF bgot[i].kind = "Ok"
        THEN bgot[i].value = ExpectedAt(i)
        ELSE /\ bgot[i].value >= 1
             /\ bgot[i].value = bgot[i].oldest - ExpectedAt(i)

\* C16: a subscriber behind by more than `buffer` gets Lagged(n) once for the
\* gap on its next recv, the recv after that returns the oldest event still
\* held, and delivered events are in sending order.
C16_LaggedPastBuffer ==
    /\ OrderedWithGapsCounted
    /\ \A i \in 1..Len(bgot) :
          bgot[i].behind > bbuffer => bgot[i].kind = "Lagged"
    /\ \A i \in LaggedAt :
          i < Len(bgot) =>
             bgot[i + 1].kind = "Ok" /\ bgot[i + 1].value = bgot[i + 1].oldest

\* C16 (amended): the threshold is the channel's capacity, `buffer` rounded up
\* to a power of two: a recv returns Lagged(n) exactly when the subscriber is
\* behind by more than that, n being the events lost; the recv after a Lagged
\* returns the oldest event still held unless a send came in between, and then
\* it returns Lagged for the new gap; delivered events are in sending order.
C16_LaggedPastCapacity ==
    /\ OrderedWithGapsCounted
    /\ \A i \in 1..Len(bgot) :
          /\ bgot[i].kind = "Lagged"
                <=> bgot[i].behind > next_power_of_two(bbuffer)
          /\ bgot[i].kind = "Lagged"
                => bgot[i].value = bgot[i].behind - next_power_of_two(bbuffer)
    /\ \A i \in LaggedAt :
          i < Len(bgot) =>
             IF bgot[i + 1].sent = bgot[i].sent
             THEN /\ bgot[i + 1].kind = "Ok"
                  /\ bgot[i + 1].value = bgot[i + 1].oldest
                  /\ bgot[i + 1].value = bgot[i].sent
                                           - next_power_of_two(bbuffer) + 1
             ELSE bgot[i + 1].kind = "Lagged"
C16_Witness ==
    /\ bbuffer = 3
    /\ bsent = 5
    /\ Len(bgot) = 2
    /\ bgot[1] = [kind |-> "Lagged", value |-> 1, behind |-> 5, sent |-> 5,
                  oldest |-> 2]
    /\ bgot[2].kind = "Ok"
    /\ bgot[2].value = 2

\* ---------------------------------------------------------------------------
\* Update pump (updates.rs): spawn_update_pump, the task it spawns, the
\* consumer reading UpdatePump::receiver(), UpdatePump::stop and the drop of
\* the handle.  Update n is the n-th result of next_update.
\* ---------------------------------------------------------------------------
MaxPolls == 3
MaxPumpBuffer == 2

\* UpdateEvent::Update / UpdateEvent::Error
UpdateOf(n) == [kind |-> "Update", n |-> n]
ErrorOf(n) == [kind |-> "Error", n |-> n]

\* the mpsc receiver is a field of the handle: it lives while the handle is
\* live and, inside stop(self), until stop returns
ReceiverOpen == handle \in {"live", "stopping"}
\* stop_rx.changed() is ready: true was sent, or stop_tx was dropped
StopReady == handle # "live"

\* where the task goes once tx.send(event).await has returned Ok
AfterSendLoop(kind) == "select"
AfterSend(kind) == IF kind = "Update" THEN "select" ELSE "done"

\* select! arm `_ = stop_rx.changed() => break`
PumpStopArm ==
    /\ ppc = "select"
    /\ StopReady
    /\ ppc' = "done"
    /\ UNCHANGED <<pbuffer, handle, held, polls, err_at, pchan, pemit, plog>>
    /\ UNCHANGED notPumpVars

\* select! arm `update = source.next_update()` returning Ok(update): the task
\* starts tx.send(Update(update))
PumpNextOk ==
    /\ ppc = "select"
    /\ polls < MaxPolls
    /\ polls' = polls + 1
    /\ held' = Some(UpdateOf(polls + 1))
    /\ pemit' = Append(pemit, UpdateOf(polls + 1))
    /\ ppc' = "send"
    /\ UNCHANGED <<pbuffer, handle, err_at, pchan, plog>>
    /\ UNCHANGED notPumpVars

\* the same arm returning Err(err): the task starts tx.send(Error(err))
PumpNextErr ==
    /\ ppc = "select"
    /\ polls < MaxPolls
    /\ polls' = polls + 1
    /\ err_at' = Some(polls + 1)
    /\ held' = Some(ErrorOf(polls + 1))
    /\ pemit' = Append(pemit, ErrorOf(polls + 1))
    /\ ppc' = "send"
    /\ UNCHANGED <<pbuffer, handle, pchan, plog>>
    /\ UNCHANGED notPumpVars

\* tx.send(event).await returns Ok: the channel had a free slot
PumpSendDone ==
    /\ ppc = "send"
    /\ ReceiverOpen
    /\ Len(pchan) < pbuffer
    /\ pchan' = Append(pchan, Unwrap(held))
    /\ plog' = Append(plog, Unwrap(held))
    /\ held' = None
    /\ ppc' = AfterSend(Unwrap(held).kind)
    /\ UNCHANGED <<pbuffer, handle, polls, err_at, pemit>>
    /\ UNCHANGED notPumpVars

\* tx.send(event).await returns Err: the receiver is gone; both match arms
\* leave the loop
PumpSendClosed ==
    /\ ppc = "send"
    /\ ~ReceiverOpen
    /\ held' = None
    /\ ppc' = "done"
    /\ UNCHANGED <<pbuffer, handle, polls, err_at, pchan, pemit, plog>>
    /\ UNCHANGED notPumpVars

\* the owner of the handle reads pump.receiver().recv()
ConsumerRecv ==
    /\ handle = "live"
    /\ pchan # <<>>
    /\ pchan' = Tail(pchan)
    /\ UNCHANGED <<pbuffer, handle, ppc, held, polls, err_at, pemit, plog>>
    /\ UNCHANGED notPumpVars

\* UpdatePump::stop(self) up to `self.join.await`
PumpStop ==
    /\ handle = "live"
    /\ handle' = "stopping"
    /\ UNCHANGED <<pbuffer, ppc, held, polls, err_at, pchan, pemit, plog>>
    /\ UNCHANGED notPumpVars

\* `self.join.await` completes; stop returns and drops the receiver
PumpStopReturn ==
    /\ handle = "stopping"
    /\ ppc = "done"
    /\ handle' = "stopped"
    /\ pchan' = <<>>
    /\ UNCHANGED <<pbuffer, ppc, held, polls, err_at, pemit, plog>>
    /\ UNCHANGED notPumpVars

\* the handle is dropped without stop: receiver and stop_tx are dropped, the
\* task is detached
PumpDrop ==
    /\ handle = "live"
    /\ handle' = "dropped"
    /\ pchan' = <<>>
    /\ UNCHANGED <<pbuffer, ppc, held, polls, err_at, pemit, plog>>
    /\ UNCHANGED notPumpVars

PumpSpecInit ==
    /\ \E buffer \in 1..MaxPumpBuffer : PumpInit(buffer)
    /\ ParkedSend
    /\ ParkedFn
    /\ ParkedCache
    /\ ParkedStore
    /\ ParkedFlush
    /\ ParkedBcast
    /\ ParkedLater
PumpNext ==
    \/ PumpStopArm
    \/ PumpNextOk
    \/ PumpNextErr
    \/ PumpSendDone
    \/ PumpSendClosed
    \/ ConsumerRecv
    \/ PumpStop
    \/ PumpStopReturn
    \/ PumpDrop
PumpSpec == PumpSpecInit /\ [][PumpNext]_vars

\* C17: the pump sends the Ok results of next_update as Update events in
\* source order; on the first source error it sends exactly one Error event,
\* the last event it ever sends, and it never polls the source after that.
C17_UpdatesThenOneError ==
    /\ Len(pemit) = polls
    /\ \A i \in 1..Len(pemit) :
          /\ pemit[i].n = i
          /\ pemit[i].kind = "Error" => i = Len(pemit)
    /\ Len(plog) <= Len(pemit)
    /\ \A i \in 1..Len(plog) : plog[i] = pemit[i]
    /\ IF IsSome(err_at)
       THEN /\ polls = Unwrap(err_at)
            /\ pemit[Len(pemit)] = ErrorOf(Unwrap(err_at))
            /\ ppc \in {"send", "done"}
            /\ ppc = "send" => held = Some(ErrorOf(Unwrap(err_at)))
            /\ (ppc = "done" /\ handle = "live") => plog = pemit
       ELSE \A i \in 1..Len(pemit) : pemit[i].kind = "Update"
C17_Witness ==
    /\ plog = <<UpdateOf(1), UpdateOf(2), ErrorOf(3)>>
    /\ ppc = "done"
    /\ handle = "live"
    /\ pchan = <<>>

\* C18: stop() always completes: once stop is signalled the task is never
\* held in a send into a full channel that nobody reads, stop returns only
\* when the task has ended, and nothing is forwarded after it has returned.
C18_StopCompletes ==
    /\ (handle = "stopping" /\ ppc = "send") => Len(pchan) < pbuffer
    /\ handle = "stopped" => ppc = "done"
C18_Witness ==
    /\ handle = "stopping"
    /\ ppc = "send"
    /\ Len(pchan) = pbuffer
    /\ ~ENABLED PumpNext


(***************************************************************************)
(* UI projector: UiCacheBridge::refresh and map_chat_summaries in           *)
(* ui_state.rs, with MessageViewState::reconcile of view.rs                 *)
(*                                                                         *)
(* A string is a sequence of character codes: 0 is the space, 1..26 are     *)
(* 'a'..'z', 27..52 are 'A'..'Z' and 53..62 are '0'..'9'.                   *)
(***************************************************************************)
MaxUiOps == 3

\* the characters of the strings the model draws
Chars(s) ==
    CASE s = "" -> <<>>
      [] s = " " -> <<0>>
      [] s = "a" -> <<1>>
      [] s = "t" -> <<20>>
      [] s = "ab" -> <<1, 2>>
      [] s = "Ab" -> <<27, 2>>

to_lowercase(text) ==
    [i \in 1..Len(text) |-> IF text[i] \in 27..52 THEN text[i] - 26 ELSE text[i]]

RECURSIVE trim_start(_)
trim_start(text) ==
    IF text # <<>> /\ Head(text) = 0 THEN trim_start(Tail(text)) ELSE text
RECURSIVE trim_end(_)
trim_end(text) ==
    IF text # <<>> /\ text[Len(text)] = 0
    THEN trim_end(SubSeq(text, 1, Len(text) - 1))
    ELSE text
trim(text) == trim_end(trim_start(text))

\* str::contains
contains(haystack, needle) ==
    \E i \in 0..(Len(haystack) - Len(needle)) :
        SubSeq(haystack, i + 1, i + Len(needle)) = needle

\* the decimal digits of a number that is not negative
RECURSIVE to_string(_)
to_string(n) ==
    IF n < 10 THEN <<53 + n>> ELSE to_string(n \div 10) \o <<53 + (n % 10)>>

\* String::cmp: byte by byte, a proper prefix first
RECURSIVE StrCmp(_, _)
StrCmp(left, right) ==
    IF left = <<>> /\ right = <<>> THEN "Equal"
    ELSE IF left = <<>> THEN "Less"
    ELSE IF right = <<>> THEN "Greater"
    ELSE IF Head(left) # Head(right) THEN Cmp(Head(left), Head(right))
    ELSE StrCmp(Tail(left), Tail(right))

unwrap_or(o, default) == IF IsSome(o) THEN Unwrap(o) ELSE default

\* the comparison without its tie-break on the title
SummaryCmpTimeOnly(left, right) ==
    Cmp(unwrap_or(right.last_message_at, 0), unwrap_or(left.last_message_at, 0))

\* the closure given to sorted.sort_by in map_chat_summaries
SummaryCmp(left, right) ==
    LET ordering == Cmp(unwrap_or(right.last_message_at, 0),
                        unwrap_or(left.last_message_at, 0))
    IN  IF ordering = "Equal" THEN StrCmp(Chars(left.title), Chars(right.title)) ELSE ordering

\* slice::sort_by is stable: an element goes after the ones that are not
\* greater than it
RECURSIVE SortSummariesFrom(_, _)
SortSummariesFrom(sorted, rest) ==
    IF rest = <<>> THEN sorted
    ELSE LET x == Head(rest)
             before == {i \in 1..Len(sorted) : SummaryCmp(sorted[i], x) = "Greater"}
             at == IF before = {} THEN Len(sorted) + 1
                   ELSE CHOOSE i \in before : \A j \in before : i <= j
         IN  SortSummariesFrom(SubSeq(sorted, 1, at - 1) \o <<x>>
                                   \o SubSeq(sorted, at, Len(sorted)),
                               Tail(rest))
SortSummaries(summaries) == SortSummariesFrom(<<>>, summaries)

\* "Chat {id}" for a title that is blank
chat_title(chat) ==
    IF trim(Chars(chat.title)) = <<>>
    THEN <<29, 8, 1, 20, 0>> \o to_string(chat.chat_id)
    ELSE Chars(chat.title)

map_chat_summaries(summaries, selected_chat) ==
    LET sorted == SortSummaries(summaries)
        resolved_selection ==
            IF IsSome(selected_chat)
               /\ \E i \in 1..Len(sorted) : sorted[i].chat_id = Unwrap(selected_chat)
            THEN selected_chat
            ELSE IF sorted # <<>> THEN Some(sorted[1].chat_id) ELSE None
    IN  [items |-> [i \in 1..Len(sorted) |->
                       [id |-> sorted[i].chat_id,
                        title |-> chat_title(sorted[i]),
                        unread |-> unwrap_or(sorted[i].unread_count, 0),
                        is_selected |-> resolved_selection = Some(sorted[i].chat_id)]],
         selection |-> resolved_selection]

\* ChatCache::messages_for_chat
messages_for_chat(c, chat_id, limit) ==
    IF chat_id \notin DOMAIN c.chats THEN <<>>
    ELSE LET messages == c.chats[chat_id].messages
         IN  IF IsSome(limit)
             THEN SubSeq(messages, Max(1, Len(messages) - Unwrap(limit) + 1), Len(messages))
             ELSE messages

message_author_label(message) ==
    IF message.outgoing
    THEN <<51, 15, 21>>
    ELSE <<47, 19, 5, 18, 0>> \o to_string(message.author_id)

\* "[hour]:[minute]" of the UTC time of a unix timestamp
format_timestamp(timestamp) ==
    [hour |-> (timestamp \div 3600) % 24, minute |-> (timestamp \div 60) % 60]

\* messages.sort_by_key(|message| message.timestamp): stable
RECURSIVE SortMessagesFrom(_, _)
SortMessagesFrom(sorted, rest) ==
    IF rest = <<>> THEN sorted
    ELSE LET x == Head(rest)
             before == {i \in 1..Len(sorted) : sorted[i].timestamp > x.timestamp}
             at == IF before = {} THEN Len(sorted) + 1
                   ELSE CHOOSE i \in before : \A j \in before : i <= j
         IN  SortMessagesFrom(SubSeq(sorted, 1, at - 1) \o <<x>>
                                  \o SubSeq(sorted, at, Len(sorted)),
                              Tail(rest))

map_messages(messages) ==
    LET sorted == SortMessagesFrom(<<>>, messages)
    IN  [i \in 1..Len(sorted) |->
            [id |-> sorted[i].message_id,
             author |-> message_author_label(sorted[i]),
             timestamp |-> format_timestamp(sorted[i].timestamp),
             body |-> Chars(sorted[i].text)]]

\* the indices, from 0, of the messages whose "author body" holds the needle
RECURSIVE MatchesFrom(_, _, _)
MatchesFrom(messages, needle, idx) ==
    IF idx >= Len(messages) THEN <<>>
    ELSE LET message == messages[idx + 1]
             haystack == to_lowercase(message.author \o <<0>> \o message.body)
         IN  (IF contains(haystack, needle) THEN <<idx>> ELSE <<>>)
                 \o MatchesFrom(messages, needle, idx + 1)

\* MessageSearchState::recompute_matches
recompute_matches(search, messages) ==
    LET query == trim(search.query.text)
    IN  IF query = <<>>
        THEN [search EXCEPT !.matches = <<>>, !.selected = 0]
        ELSE LET matches == MatchesFrom(messages, to_lowercase(query), 0)
             IN  [search EXCEPT
                     !.matches = matches,
                     !.selected = IF matches = <<>> \/ search.selected >= Len(matches)
                                  THEN 0 ELSE search.selected]

\* MessageViewState::reconcile
reconcile(view, messages) ==
    LET existing_ids == {messages[i].id : i \in 1..Len(messages)}
        max_index == SaturatingSub(Len(messages), 1)
    IN  [view EXCEPT
            !.selected_ids = view.selected_ids \cap existing_ids,
            !.cursor = IF messages = <<>> THEN None
                       ELSE Some(Min(unwrap_or(view.cursor, max_index), max_index)),
            !.scroll_offset = IF messages = <<>> THEN 0
                              ELSE Min(view.scroll_offset, max_index),
            !.search = recompute_matches(view.search, messages)]

\* UiCacheBridge::refresh: cache.chat_summaries() yields the summaries in the
\* HashMap's order
Refresh ==
    /\ \E order \in Orders(DOMAIN chats) :
          LET summaries == [i \in 1..Len(order) |-> chats[order[i]].summary]
              mapped == map_chat_summaries(summaries, bridge.selected_chat)
              messages == IF IsSome(mapped.selection)
                          THEN map_messages(messages_for_chat(Cache,
                                   Unwrap(mapped.selection), bridge.message_limit))
                          ELSE <<>>
          IN  /\ bridge' = [bridge EXCEPT !.selected_chat = mapped.selection]
              /\ state' = [state EXCEPT
                              !.chats = mapped.items,
                              !.messages = messages,
                              !.message_view = reconcile(state.message_view, messages)]
    /\ UNCHANGED cacheVars
    /\ UNCHANGED notUiVars

UiTitles == {"a", "ab"}
UiSummaries ==
    [chat_id : {1, 2}, title : UiTitles, peer_kind : {"User"},
     last_message_id : {None}, last_message_at : {None, Some(1)},
     unread_count : {Some(5)}]
UiMessageNewEvents ==
    [kind : {"MessageNew"}, chat_id : {1}, message_id : {1, 2}, author_id : {7},
     timestamp : {1, 2}, text : {"ab"}, outgoing : {FALSE}]
UiLimits == {CacheLimits(1, 0, 0), CacheLimits(0, 0, 0)}

\* CacheManager::upsert_chat and apply_event, between two refreshes
UiUpsert(summary) ==
    \E c \in upsert_chat(Cache, summary) : ReturnedWithin(MaxUiOps, "upsert_chat", c)
UiMessageNew(event) ==
    \E c \in apply_event(Cache, event) : ReturnedWithin(MaxUiOps, "MessageNew", c)

ProjectorInit ==
    /\ \E lim \in UiLimits :
          /\ chats = NewCache(lim).chats
          /\ limits = NewCache(lim).limits
          /\ current_bytes = NewCache(lim).current_bytes
    /\ lastOp = [op |-> "new", stats |-> NoStats]
    /\ ops = 0
    /\ state = UiStateDefault
    /\ \E limit \in {None, Some(1)} :
          bridge = [selected_chat |-> None, message_limit |-> limit]
    /\ ParkedApp
    /\ ParkedSend
    /\ ParkedFn
    /\ ParkedStore
    /\ ParkedFlush
    /\ ParkedBcast
    /\ ParkedPump
    /\ ParkedTx
    /\ ParkedLock

ProjectorNext ==
    \/ \E summary \in UiSummaries : UiUpsert(summary)
    \/ \E event \in UiMessageNewEvents : UiMessageNew(event)
    \/ Refresh

ProjectorSpec == ProjectorInit /\ [][ProjectorNext]_vars

\* the summary the cache holds for a listed chat
SummaryOfItem(it) == chats[it.id].summary
\* the list is in the order of the claim: later last_message_at first, none
\* counted as 0, and the smaller title first among equal times
ListedInOrder(items) ==
    \A i, j \in 1..Len(items) :
        i < j =>
            LET a == SummaryOfItem(items[i])
                b == SummaryOfItem(items[j])
                at == unwrap_or(a.last_message_at, 0)
                bt == unwrap_or(b.last_message_at, 0)
            IN  \/ at > bt
                \/ at = bt /\ StrCmp(Chars(a.title), Chars(b.title)) # "Greater"

\* C31: a refresh lists every cached chat once, by last_message_at descending
\* (none as 0) and then title ascending; the selection is the one before if
\* that chat is still cached, else the first chat listed, else none; exactly
\* the item of the selected chat has is_selected; the cache is as it was.
C31_RefreshSortsAndSelects ==
    [][Refresh =>
          LET items == state'.chats
              resolved == bridge'.selected_chat
          IN  /\ Len(items) = Cardinality(DOMAIN chats)
              /\ {items[i].id : i \in 1..Len(items)} = DOMAIN chats
              /\ ListedInOrder(items)
              /\ resolved =
                    IF IsSome(bridge.selected_chat)
                       /\ Unwrap(bridge.selected_chat) \in DOMAIN chats
                    THEN bridge.selected_chat
                    ELSE IF items # <<>> THEN Some(items[1].id) ELSE None
              /\ \A i \in 1..Len(items) :
                    items[i].is_selected <=> resolved = Some(items[i].id)
              /\ IsSome(resolved) =>
                    Cardinality({i \in 1..Len(items) : items[i].is_selected}) = 1
              /\ chats' = chats /\ limits' = limits /\ current_bytes' = current_bytes]_vars
C31_Witness ==
    /\ limits = CacheLimits(0, 0, 0)
    /\ DOMAIN chats = {1, 2}
    /\ Len(state.chats) = 2
    /\ state.chats[1].id = 2
    /\ state.chats[2].id = 1
    /\ chats[1].summary.last_message_at = Some(1)
    /\ chats[2].summary.last_message_at = Some(1)
    /\ chats[2].summary.title = "a"
    /\ chats[1].summary.title = "ab"
    /\ bridge.selected_chat = Some(1)
    /\ ~state.chats[1].is_selected
    /\ state.chats[2].is_selected


(***************************************************************************)
(* Key handling: handle_ui_key in interaction.rs, handle_key in input.rs,   *)
(* MessageSearchState and MessageViewState in view.rs                       *)
(***************************************************************************)
KeyOf(code, ch, mods) == [code |-> code, ch |-> ch, mods |-> mods]
Plain(code) == KeyOf(code, <<>>, {})
Char(c) == KeyOf("Char", <<c>>, {})
Ctrl(c) == KeyOf("Char", <<c>>, {"CONTROL"})

\* the keys pressed: 0 is the space, 1..26 are 'a'..'z', 27..52 'A'..'Z',
\* 63 stands for '/' and 64 for '['
Keys ==
    {Plain("Tab"), Plain("Up"), Plain("Down"), Plain("Home"), Plain("End"),
     Plain("PageUp"), Plain("PageDown"), Plain("Enter"), Plain("Esc"),
     Plain("Backspace"), Plain("Left"), Plain("F3"), KeyOf("F3", <<>>, {"SHIFT"}),
     Char(0), Char(1), Char(9), Char(10), Char(14), Char(63), Ctrl(6), Ctrl(2),
     Ctrl(64)}
KeymapStyles == {"Vim", "Vscode"}

\* the texts a composer or a search query is typed up to
TypedTexts == {<<>>, <<0>>, <<1>>}

\* input::handle_key: the InputState it leaves and the bool it returns
handle_text_key(input, key) ==
    CASE key.code = "Char" ->
            IF "CONTROL" \in key.mods
            THEN [input |-> input, handled |-> FALSE]
            ELSE [input |-> [text |-> SubSeq(input.text, 1, input.cursor) \o key.ch
                                         \o SubSeq(input.text, input.cursor + 1,
                                                   Len(input.text)),
                             cursor |-> input.cursor + 1],
                  handled |-> TRUE]
      [] key.code = "Backspace" ->
            [input |-> IF input.cursor > 0
                       THEN [text |-> SubSeq(input.text, 1, input.cursor - 1)
                                         \o SubSeq(input.text, input.cursor + 1,
                                                   Len(input.text)),
                             cursor |-> input.cursor - 1]
                       ELSE input,
             handled |-> TRUE]
      [] key.code = "Left" ->
            [input |-> [input EXCEPT !.cursor = IF @ > 0 THEN @ - 1 ELSE @],
             handled |-> TRUE]
      [] key.code = "Right" ->
            [input |-> [input EXCEPT !.cursor = IF @ < Len(input.text) THEN @ + 1 ELSE @],
             handled |-> TRUE]
      [] key.code = "Home" -> [input |-> [input EXCEPT !.cursor = 0], handled |-> TRUE]
      [] key.code = "End" ->
            [input |-> [input EXCEPT !.cursor = Len(input.text)], handled |-> TRUE]
      [] OTHER -> [input |-> input, handled |-> FALSE]

\* MessageSearchState::selected_match: matches.get(selected)
selected_match(search) ==
    IF search.selected < Len(search.matches)
    THEN Some(search.matches[search.selected + 1]) ELSE None

\* MessageSearchState::advance: the state it leaves and the index it returns
advance(search, forward) ==
    IF search.matches = <<>> THEN [search |-> search, index |-> None]
    ELSE LET selected == IF forward THEN (search.selected + 1) % Len(search.matches)
                         ELSE IF search.selected = 0 THEN Len(search.matches) - 1
                         ELSE search.selected - 1
         IN  [search |-> [search EXCEPT !.selected = selected],
              index |-> IF selected < Len(search.matches)
                        THEN Some(search.matches[selected + 1]) ELSE None]

clamp(x, lo, hi) == IF x < lo THEN lo ELSE IF x > hi THEN hi ELSE x

\* ensure_cursor_visible without the lower bound on the page size
ensure_cursor_visible_unguarded(view) ==
    IF view.cursor = None THEN view
    ELSE LET cursor == Unwrap(view.cursor)
             scroll == view.scroll_offset
         IN  IF cursor < scroll THEN [view EXCEPT !.scroll_offset = cursor]
             ELSE IF cursor >= scroll + view.page_size
             THEN [view EXCEPT !.scroll_offset = cursor + 1 - view.page_size]
             ELSE view

ensure_cursor_visible(view) ==
    IF view.cursor = None THEN view
    ELSE LET cursor == Unwrap(view.cursor)
             page_size == Max(view.page_size, 1)
             scroll == view.scroll_offset
         IN  IF cursor < scroll THEN [view EXCEPT !.scroll_offset = cursor]
             ELSE IF cursor >= scroll + page_size
             THEN [view EXCEPT !.scroll_offset = cursor + 1 - page_size]
             ELSE view

move_message_cursor(s, delta) ==
    IF s.messages = <<>> THEN s
    ELSE LET max_index == Len(s.messages) - 1
             current == unwrap_or(s.message_view.cursor, max_index)
             next == clamp(current + delta, 0, max_index)
         IN  [s EXCEPT !.message_view =
                 ensure_cursor_visible([s.message_view EXCEPT !.cursor = Some(next)])]

jump_message_cursor(s, index) ==
    IF s.messages = <<>> THEN s
    ELSE LET max_index == SaturatingSub(Len(s.messages), 1)
         IN  [s EXCEPT !.message_view =
                 ensure_cursor_visible(
                     [s.message_view EXCEPT !.cursor = Some(Min(index, max_index))])]

jump_message_cursor_to_end(s) ==
    IF s.messages = <<>> THEN s
    ELSE [s EXCEPT !.message_view =
             ensure_cursor_visible(
                 [s.message_view EXCEPT
                     !.cursor = Some(SaturatingSub(Len(s.messages), 1))])]

scroll_by(s, delta) ==
    IF s.messages = <<>> THEN s
    ELSE [s EXCEPT !.message_view.scroll_offset =
             clamp(s.message_view.scroll_offset + delta, 0, Len(s.messages) - 1)]

scroll_page(s, direction) == scroll_by(s, direction * Max(s.message_view.page_size, 1))

\* MessageViewState::cursor_message_id and toggle_selection
toggle_message_selection(s) ==
    IF IsSome(s.message_view.cursor) /\ Unwrap(s.message_view.cursor) < Len(s.messages)
    THEN LET message_id == s.messages[Unwrap(s.message_view.cursor) + 1].id
         IN  [s EXCEPT !.message_view.selected_ids =
                 IF message_id \in @ THEN @ \ {message_id} ELSE @ \cup {message_id}]
    ELSE s

open_search(s) ==
    [s EXCEPT !.message_view.search =
                  recompute_matches([s.message_view.search EXCEPT
                                        !.is_open = TRUE,
                                        !.query = [text |-> <<>>, cursor |-> 0]],
                                    s.messages),
              !.focus = "Search"]

jump_search_match(s, forward) ==
    LET moved == advance(s.message_view.search, forward)
    IN  IF IsSome(moved.index)
        THEN [s EXCEPT !.message_view.search = moved.search,
                       !.message_view.cursor = moved.index,
                       !.message_view.scroll_offset = Unwrap(moved.index)]
        ELSE [s EXCEPT !.message_view.search = moved.search]

move_chat_selection(chat_items, delta) ==
    IF chat_items = <<>> THEN chat_items
    ELSE LET selected == {i \in 1..Len(chat_items) : chat_items[i].is_selected}
             current == IF selected = {} THEN 0
                        ELSE (CHOOSE i \in selected : \A j \in selected : i <= j) - 1
             next == clamp(current + delta, 0, Len(chat_items) - 1)
         IN  [i \in 1..Len(chat_items) |->
                 [chat_items[i] EXCEPT !.is_selected = (i - 1 = next)]]

cycle_focus(s) ==
    [s EXCEPT !.focus = CASE s.focus = "Chats" -> "Messages"
                          [] s.focus = "Messages" -> "Composer"
                          [] s.focus = "Composer" -> "Chats"
                          [] s.focus = "Search" -> "Messages"]

handle_chats_key(s, key, style) ==
    CASE key.code = "Up" -> [s EXCEPT !.chats = move_chat_selection(s.chats, -1)]
      [] key.code = "Down" -> [s EXCEPT !.chats = move_chat_selection(s.chats, 1)]
      [] key.code = "Char" /\ key.ch = <<11>> /\ style = "Vim" ->
            [s EXCEPT !.chats = move_chat_selection(s.chats, -1)]
      [] key.code = "Char" /\ key.ch = <<10>> /\ style = "Vim" ->
            [s EXCEPT !.chats = move_chat_selection(s.chats, 1)]
      [] key.code = "Enter" -> [s EXCEPT !.focus = "Messages"]
      [] key.code = "Char" /\ key.ch = <<9>> /\ style = "Vim" ->
            [s EXCEPT !.focus = "Composer"]
      [] OTHER -> s

handle_messages_key(s, key, style) ==
    CASE key = Char(9) /\ style = "Vim" -> [s EXCEPT !.focus = "Composer"]
      [] key = Char(63) /\ style = "Vim" -> open_search(s)
      [] key = Char(14) /\ style = "Vim" -> jump_search_match(s, TRUE)
      [] key = Char(40) /\ style = "Vim" -> jump_search_match(s, FALSE)
      [] key = Char(10) /\ style = "Vim" -> move_message_cursor(s, 1)
      [] key = Char(11) /\ style = "Vim" -> move_message_cursor(s, -1)
      [] key = Char(7) /\ style = "Vim" -> jump_message_cursor(s, 0)
      [] key = Char(33) /\ style = "Vim" -> jump_message_cursor_to_end(s)
      [] key = Char(0) -> toggle_message_selection(s)
      [] key = Plain("Up") -> move_message_cursor(s, -1)
      [] key = Plain("Down") -> move_message_cursor(s, 1)
      [] key = Plain("Home") -> jump_message_cursor(s, 0)
      [] key = Plain("End") -> jump_message_cursor_to_end(s)
      [] key = Plain("PageUp") -> scroll_page(s, -1)
      [] key = Plain("PageDown") -> scroll_page(s, 1)
      [] key.code = "Char" /\ key.ch = <<6>> /\ style = "Vscode"
            /\ "CONTROL" \in key.mods -> open_search(s)
      [] key.code = "F3" -> jump_search_match(s, "SHIFT" \notin key.mods)
      [] key.code = "Char" /\ key.ch = <<2>> /\ "CONTROL" \in key.mods
            /\ style = "Vim" -> scroll_page(s, -1)
      [] key.code = "Char" /\ key.ch = <<6>> /\ "CONTROL" \in key.mods
            /\ style = "Vim" -> scroll_page(s, 1)
      [] OTHER -> s

handle_composer_key(s, key, style) ==
    IF key = Plain("Esc") THEN [s EXCEPT !.focus = "Messages"]
    ELSE IF key.code = "Char" /\ key.ch = <<64>> /\ style = "Vim"
            /\ "CONTROL" \in key.mods
    THEN [s EXCEPT !.focus = "Messages"]
    ELSE [s EXCEPT !.input = handle_text_key(s.input, key).input]

handle_search_key(s, key) ==
    CASE key = Plain("Esc") ->
            [s EXCEPT !.message_view.search.is_open = FALSE, !.focus = "Messages"]
      [] key = Plain("Enter") ->
            LET selected == selected_match(s.message_view.search)
            IN  IF IsSome(selected)
                THEN [s EXCEPT !.message_view.cursor = selected,
                               !.message_view.scroll_offset = Unwrap(selected)]
                ELSE s
      [] key = Plain("Up") -> jump_search_match(s, FALSE)
      [] key = Plain("Down") -> jump_search_match(s, TRUE)
      [] OTHER ->
            LET typed == handle_text_key(s.message_view.search.query, key)
            IN  IF typed.handled
                THEN [s EXCEPT !.message_view.search =
                         recompute_matches([s.message_view.search EXCEPT
                                               !.query = typed.input],
                                           s.messages)]
                ELSE s

handle_ui_key(s, key, style) ==
    LET s1 == IF s.message_view.search.is_open /\ s.focus # "Search"
              THEN [s EXCEPT !.focus = "Search"] ELSE s
    IN  IF key = Plain("Tab") THEN cycle_focus(s1)
        ELSE CASE s1.focus = "Chats" -> handle_chats_key(s1, key, style)
               [] s1.focus = "Messages" -> handle_messages_key(s1, key, style)
               [] s1.focus = "Composer" -> handle_composer_key(s1, key, style)
               [] s1.focus = "Search" -> handle_search_key(s1, key)

\* one key press; the texts stay among TypedTexts
HandleUiKey(key, style) ==
    /\ state' = handle_ui_key(state, key, style)
    /\ state'.input.text \in TypedTexts
    /\ state'.message_view.search.query.text \in TypedTexts
    /\ UNCHANGED bridge
    /\ UNCHANGED cacheVars
    /\ UNCHANGED notUiVars

\* the message lists shown: none, and "Ada: hi", "You: ok", "User 7: a"
ViewMessages ==
    {<<>>,
     <<[id |-> 1, author |-> <<27, 4, 1>>, timestamp |-> format_timestamp(60),
        body |-> <<8, 9>>],
       [id |-> 2, author |-> <<51, 15, 21>>, timestamp |-> format_timestamp(120),
        body |-> <<15, 11>>],
       [id |-> 3, author |-> <<47, 19, 5, 18, 0, 60>>, timestamp |-> format_timestamp(180),
        body |-> <<1>>]>>}
\* the views reconcile is called on: the default one, and one left by a
\* longer list, with a page of one line
ViewsBefore ==
    {UiStateDefault.message_view,
     [scroll_offset |-> 7, cursor |-> Some(5), selected_ids |-> {2, 9},
      search |-> [is_open |-> FALSE, query |-> [text |-> <<1>>, cursor |-> 1],
                  matches |-> <<0, 4, 5>>, selected |-> 2],
      page_size |-> 1],
     [UiStateDefault.message_view EXCEPT !.page_size = 0]}
ViewChats ==
    <<[id |-> 1, title |-> <<1>>, unread |-> 0, is_selected |-> TRUE],
      [id |-> 2, title |-> <<2>>, unread |-> 0, is_selected |-> FALSE]>>

\* state.messages = messages; state.message_view.reconcile(&state.messages)
ViewInit ==
    /\ \E messages \in ViewMessages, view \in ViewsBefore :
          state = [UiStateDefault EXCEPT !.chats = ViewChats,
                                         !.messages = messages,
                                         !.message_view = reconcile(view, messages)]
    /\ bridge = [selected_chat |-> Some(1), message_limit |-> None]
    /\ ParkedApp
    /\ ParkedCache
    /\ ParkedSend
    /\ ParkedFn
    /\ ParkedStore
    /\ ParkedFlush
    /\ ParkedBcast
    /\ ParkedPump
    /\ ParkedTx
    /\ ParkedLock

ViewNext == \E key \in Keys, style \in KeymapStyles : HandleUiKey(key, style)

ViewSpec == ViewInit /\ [][ViewNext]_vars

\* C38: after reconcile and any keys on the same message list, a list that is
\* not empty has the cursor on one of its lines and the scroll offset within
\* it, and every selected id is the id of a listed message.
C38_CursorInRange ==
    /\ state.messages # <<>> =>
          /\ IsSome(state.message_view.cursor)
          /\ Unwrap(state.message_view.cursor) \in 0..(Len(state.messages) - 1)
          /\ state.message_view.scroll_offset \in 0..(Len(state.messages) - 1)
    /\ state.message_view.selected_ids
          \subseteq {state.messages[i].id : i \in 1..Len(state.messages)}
C38_Witness ==
    /\ Len(state.messages) = 3
    /\ state.message_view.page_size = 1
    /\ state.message_view.cursor = Some(2)
    /\ state.message_view.scroll_offset = 2
    /\ state.message_view.selected_ids = {1, 3}
    /\ state.message_view.search.matches = <<0, 2>>
    /\ state.message_view.search.selected = 1
    /\ state.focus = "Messages"

(***************************************************************************)
(* Application start: async_main, run_phone_login and run_qr_login in       *)
(* main.rs                                                                 *)
(***************************************************************************)
MaxAuthCalls == 6

AuthResults ==
    {"Authorized", "PasswordRequired", "InvalidCode", "InvalidPassword", "SignUpRequired"}
QrLoginResults == {"Authorized", "PendingSame", "PendingNew"}

\* where async_main goes after `?`: on, or out of main with the error
AppStep(pc, authorized, call) ==
    app' = [pc |-> pc, authorized |-> authorized, log |-> Append(app.log, call)]

\* run_phone_login, the match on submit_phone_code(..).await?
AfterPhoneCode(result) ==
    CASE result = "Authorized" -> "spawn"
      [] result = "PasswordRequired" -> "password"
      [] result = "InvalidCode" -> "code"
      [] result = "SignUpRequired" -> "spawn"
      [] result = "InvalidPassword" -> "code"

\* run_phone_login, the match on submit_password(..).await?
AfterPassword(result) ==
    CASE result = "Authorized" -> "spawn"
      [] result = "InvalidPassword" -> "code"
      [] result = "SignUpRequired" -> "spawn"
      [] result \in {"InvalidCode", "PasswordRequired"} -> "code"

\* run_qr_login, the matches on begin_qr_login and poll_qr_login
AfterQr(result) == IF result = "Authorized" THEN "spawn" ELSE "qr_poll"

\* if !auth_flow.is_authorized().await? { match method { .. } }
IsAuthorized ==
    /\ app.pc = "start"
    /\ \/ AppStep("spawn", TRUE, <<"is_authorized", "true">>)
       \/ \E method \in {"Phone", "Qr"} :
             AppStep(IF method = "Phone" THEN "phone_begin" ELSE "qr_begin",
                     FALSE, <<"is_authorized", "false", method>>)
       \/ AppStep("failed", FALSE, <<"is_authorized", "Err">>)
    /\ UNCHANGED notAppVars

\* auth_flow.begin_phone_login(phone.trim()).await?
BeginPhoneLogin ==
    /\ app.pc = "phone_begin"
    /\ \/ AppStep("code", FALSE, <<"begin_phone_login", "Ok">>)
       \/ AppStep("failed", FALSE, <<"begin_phone_login", "Err">>)
    /\ UNCHANGED notAppVars

\* auth_flow.submit_phone_code(&login, code.trim()).await?
SubmitPhoneCode ==
    /\ app.pc = "code"
    /\ Len(app.log) < MaxAuthCalls
    /\ \/ \E result \in AuthResults :
             AppStep(AfterPhoneCode(result), result = "Authorized",
                     <<"submit_phone_code", result>>)
       \/ AppStep("failed", FALSE, <<"submit_phone_code", "Err">>)
    /\ UNCHANGED notAppVars

\* auth_flow.submit_password(token, password.trim()).await?
SubmitPassword ==
    /\ app.pc = "password"
    /\ \/ \E result \in AuthResults :
             AppStep(AfterPassword(result), result = "Authorized",
                     <<"submit_password", result>>)
       \/ AppStep("failed", FALSE, <<"submit_password", "Err">>)
    /\ UNCHANGED notAppVars

\* auth_flow.begin_qr_login().await?
BeginQrLogin ==
    /\ app.pc = "qr_begin"
    /\ \/ \E result \in {"Authorized", "PendingNew"} :
             AppStep(AfterQr(result), result = "Authorized", <<"begin_qr_login", result>>)
       \/ AppStep("failed", FALSE, <<"begin_qr_login", "Err">>)
    /\ UNCHANGED notAppVars

\* auth_flow.poll_qr_login(&pending).await?, every two seconds
PollQrLogin ==
    /\ app.pc = "qr_poll"
    /\ Len(app.log) < MaxAuthCalls
    /\ \/ \E result \in QrLoginResults :
             AppStep(AfterQr(result), result = "Authorized", <<"poll_qr_login", result>>)
       \/ AppStep("failed", FALSE, <<"poll_qr_login", "Err">>)
    /\ UNCHANGED notAppVars

\* bootstrap.spawn_event_stream(config.update_buffer)?
SpawnEventStream ==
    /\ app.pc = "spawn"
    /\ \/ AppStep("running", app.authorized, <<"spawn_event_stream", "Ok">>)
       \/ AppStep("failed", app.authorized, <<"spawn_event_stream", "Err">>)
    /\ UNCHANGED notAppVars

AppInit ==
    /\ ParkedApp
    /\ ParkedUi
    /\ ParkedSend
    /\ ParkedFn
    /\ ParkedCache
    /\ ParkedStore
    /\ ParkedFlush
    /\ ParkedBcast
    /\ ParkedPump
    /\ ParkedTx
    /\ ParkedLock

AppNext ==
    \/ IsAuthorized
    \/ BeginPhoneLogin
    \/ SubmitPhoneCode
    \/ SubmitPassword
    \/ BeginQrLogin
    \/ PollQrLogin
    \/ SpawnEventStream

AppSpec == AppInit /\ [][AppNext]_vars

\* C37: spawn_event_stream is called only on an authorized session:
\* is_authorized returned true, or the login flow that was run ended with an
\* Authorized outcome.
C37_StreamOnlyWhenAuthorized ==
    app.pc = "running" => app.authorized

====
